---- MODULE Spec2Model ----
(***************************************************************************)
(* Watts SmartHome integration: the API client's token lifecycle and       *)
(* request/retry logic (api.py) and the polling coordinator's refresh      *)
(* cycle (coordinator.py), as state machines whose steps are the code      *)
(* between two suspension points (awaits).                                 *)
(***************************************************************************)
EXTENDS Integers, Sequences, FiniteSets, TLC

\* ------------------------------------------------------------------ bounds
\* The monotonic clock runs from 0 to MaxTime seconds.
MaxTime == 2

\* ------------------------------------------------------- program constants
\* _ensure_access_token trusts a token only until 30 s before its expiry.
EXPIRY_MARGIN == 30
\* async_login stores at least one second of lifetime.
MIN_LIFETIME == 1

\* The tasks that call the one API client: the coordinator's refresh and a
\* service call or entity write running beside it.
Tasks == {"refresh", "service"}

\* Python's None for the string-valued fields.
None == "None"

\* ---------------------------------------------------------------- inputs
\* access_token / refresh_token values of a login response, after
\* str(...).strip(); "" is a missing or blank field.
AccessTokens == {"", "tokA", "tokB"}
RefreshTokens == {"", "refA"}
\* expires_in of a login response; a missing field reads as 0.
ExpiresInValues == {-5, 0, 30, 31, 32}
\* HTTP statuses of the token endpoint and of the API endpoints.
LoginStatuses == {200, 401, 500}
ApiStatuses == {200, 401, 403, 500}
AUTH_REJECTED == {401, 403}

\* Characters of a vendor response code and the raw `code` field values.
InnerCodes ==
    {<<>>, <<" ">>, <<"1">>, <<"1", " ">>, <<"8">>, <<"2">>, <<"3">>}
\* The `code` entry of a JSON body: absent, null, a mapping (with or without
\* an inner `code` field) or a non-empty string (not a mapping).
CodeEntries ==
    {[kind |-> k, has_code |-> FALSE, code |-> <<>>] :
        k \in {"absent", "null", "mapping", "string"}}
    \cup {[kind |-> "mapping", has_code |-> TRUE, code |-> c] : c \in InnerCodes}
NoCodeEntry == [kind |-> "absent", has_code |-> FALSE, code |-> <<>>]
\* allow_api_codes of a call: none, or {"2"} (async_check_query_failure).
AllowSets == {{}, {<<"2">>}}

\* A raw HTTP exchange ends with a response or with a network-layer failure
\* (asyncio.TimeoutError, aiohttp.ClientError).
LoginResponses ==
    {[net_failed |-> TRUE, status |-> 0, access_token |-> "",
      refresh_token |-> "", expires_in |-> 0]}
    \cup {[net_failed |-> FALSE, status |-> s, access_token |-> a,
           refresh_token |-> r, expires_in |-> e] :
            s \in LoginStatuses, a \in AccessTokens, r \in RefreshTokens,
            e \in ExpiresInValues}
ApiResponses ==
    {[net_failed |-> TRUE, status |-> 0, code_entry |-> NoCodeEntry]}
    \cup {[net_failed |-> FALSE, status |-> s, code_entry |-> NoCodeEntry] :
            s \in ApiStatuses \ {200}}
    \cup {[net_failed |-> FALSE, status |-> 200, code_entry |-> c] :
            c \in CodeEntries}

\* ----------------------------------------------------------------- state
VARIABLES
    _token,          \* WattsApiClient._token (present = FALSE: None)
    _access_token,   \* WattsApiClient._access_token
    _refresh_token,  \* WattsApiClient._refresh_token
    now,             \* time.monotonic()
    call,            \* per task: the _request / async_login call it runs
    data,            \* WattsCoordinator.data, the published snapshot
    _smarthomes,     \* WattsCoordinator._smarthomes
    refresh,         \* the running _async_update_data: position and locals
    last,            \* how the last refresh ended
    pre,             \* what the read accessors returned when it started
    args,            \* the arguments of a call of a function of models.py
                     \* or formatting.py
    returned,        \* what that call returned or raised
    hass,            \* hass.data[DOMAIN], hass.services and the setups of
                     \* the config entries
    write,           \* the write an entity runs: position and outcome
    poll             \* the polling interval and the window after a write

apiVars == <<_token, _access_token, _refresh_token, now, call>>
coordVars == <<data, _smarthomes, refresh, last, pre>>
fnVars == <<args, returned>>
hassVars == <<hass, write, poll>>
vars == <<_token, _access_token, _refresh_token, now, call,
          data, _smarthomes, refresh, last, pre, args, returned,
          hass, write, poll>>

\* ------------------------------------------------------------- WattsToken
NoToken == [present |-> FALSE, access_token |-> "", refresh_token |-> "",
            expires_at |-> 0]

Max(a, b) == IF a >= b THEN a ELSE b

WattsToken(access_token, refresh_token, expires_at) ==
    [present |-> TRUE, access_token |-> access_token,
     refresh_token |-> refresh_token, expires_at |-> expires_at]

\* The token is present and the clock is before the safety margin.
WithinMargin(tok, t) == tok.present /\ t < tok.expires_at - EXPIRY_MARGIN

\* NeedsLogin without the safety margin: the token is used up to its expiry.
NeedsLogin_NoMargin(tok, t) ==
    \/ ~tok.present
    \/ t >= tok.expires_at

\* _ensure_access_token, lines 117-120: a login is needed when there is no
\* token or the clock is within the margin of its expiry.
NeedsLogin(tok, t) ==
    \/ ~tok.present
    \/ t >= tok.expires_at - EXPIRY_MARGIN

\* async_login, lines 94-99: how a login exchange ends.
LoginResult(resp) ==
    IF resp.net_failed THEN "ConnectionError"
    ELSE IF resp.status >= 400 THEN "AuthError"
    ELSE IF resp.access_token = "" THEN "AuthError"
    ELSE "ok"

\* TokenFrom without the floor max(1, ...) on the lifetime.
TokenFrom_NoFloor(resp, t) ==
    WattsToken(resp.access_token, resp.refresh_token, t + resp.expires_in)

\* async_login, lines 101-108: the token built from one login response.
TokenFrom(resp, t) ==
    WattsToken(resp.access_token, resp.refresh_token,
               t + Max(MIN_LIFETIME, resp.expires_in))

\* str.strip() on a sequence of characters.
RECURSIVE LStrip(_)
LStrip(s) ==
    IF s = <<>> THEN s
    ELSE IF Head(s) = " " THEN LStrip(Tail(s)) ELSE s

RECURSIVE RStrip(_)
RStrip(s) ==
    IF s = <<>> THEN s
    ELSE IF s[Len(s)] = " " THEN RStrip(SubSeq(s, 1, Len(s) - 1)) ELSE s

Strip(s) == RStrip(LStrip(s))

_SUCCESS_CODES == {<<"1">>, <<"8">>}

\* _request, lines 217-219.
Allowed(allow_api_codes) == _SUCCESS_CODES \cup allow_api_codes

\* _request, lines 212-213: code_obj = payload.get("code") or {} and
\* str(code_obj.get("code", "")).strip(). A null entry and a mapping without
\* the field both read as "".
InnerCode(entry) ==
    IF entry.kind = "mapping" /\ entry.has_code THEN Strip(entry.code)
    ELSE <<>>

\* EnvelopeRejects without the test for an empty code.
EnvelopeRejects_EmptyToo(code, allow_api_codes) ==
    code \notin Allowed(allow_api_codes)

\* _request, lines 221-224: the vendor envelope rejects the response.
EnvelopeRejects(code, allow_api_codes) ==
    code # <<>> /\ code \notin Allowed(allow_api_codes)

\* _request, lines 203-226: how the call ends once the last response is in.
ResponseResult(status, entry, allow_api_codes) ==
    IF status \in AUTH_REJECTED THEN "AuthError"
    ELSE IF status >= 400 THEN "ApiError"
    ELSE IF entry.kind = "absent" THEN "ok"
    ELSE IF entry.kind = "string" THEN "AttributeError"
    ELSE IF EnvelopeRejects(InnerCode(entry), allow_api_codes) THEN "ApiError"
    ELSE "ok"

\* ------------------------------------------------------------ call record
IdleCall ==
    [pc |-> "idle", op |-> "", auth_required |-> TRUE, allow |-> {},
     attempts |-> 0, logins |-> 0, relogins |-> 0,
     first_status |-> 0, status |-> 0, net_failed |-> FALSE,
     code_entry |-> NoCodeEntry, bearer |-> None,
     margin_ok |-> FALSE, ensure_fresh |-> FALSE, ensure_login |-> FALSE,
     result |-> ""]

InitApi ==
    /\ _token = NoToken
    /\ _access_token = None
    /\ _refresh_token = None
    /\ now = 0
    /\ call = [t \in Tasks |-> IdleCall]

\* StoreToken keeping the previous refresh token when the response has none.
StoreToken_KeepingOldRefresh(resp) ==
    /\ _token' = TokenFrom(resp, now)
    /\ _access_token' = resp.access_token
    /\ _refresh_token' = IF resp.refresh_token = "" THEN _refresh_token
                         ELSE resp.refresh_token

\* async_login, lines 104-111: the token and the two compatibility fields
\* are set from the same response.
StoreToken(resp) ==
    /\ _token' = TokenFrom(resp, now)
    /\ _access_token' = resp.access_token
    /\ _refresh_token' = resp.refresh_token

\* A failed exchange leaves the client's fields as they are.
KeepToken == UNCHANGED <<_token, _access_token, _refresh_token>>

\* The call of task t ends with an exception or a return value.
Finish(c, result) == [c EXCEPT !.pc = "done", !.result = result]

\* OnNetworkFailure sending the attempt once more instead of raising.
OnNetworkFailure_Retry(c) ==
    [c EXCEPT !.pc = "http1", !.attempts = c.attempts + 1]

\* _async_raw_request, lines 165-166: a timeout or client error is raised
\* as WattsConnectionError, which no caller in the client catches.
OnNetworkFailure(c) == Finish(c, "ConnectionError")

\* async_login raises (lines 88-99): the network failure of its exchange,
\* or WattsAuthError.
LoginFails(c, resp) ==
    IF resp.net_failed THEN OnNetworkFailure(c)
    ELSE Finish(c, LoginResult(resp))

\* _request, lines 181-189 after _ensure_access_token returned tok: the
\* bearer header is built and the HTTP attempt is sent.
SendWith(c, tok, t) ==
    [c EXCEPT !.pc = IF c.attempts = 0 THEN "http1" ELSE "http2",
              !.attempts = c.attempts + 1,
              !.bearer = tok.access_token,
              !.margin_ok = WithinMargin(tok, t)]

\* ------------------------------------------------- WattsApiClient._request
\* _request up to its first suspension (lines 179-189): without
\* auth_required the attempt is sent at once; otherwise
\* _ensure_access_token either starts a login or returns the cached token.
StartRequest(t, auth_required, allow) ==
    /\ call[t].pc \in {"idle", "done"}
    /\ LET c == [IdleCall EXCEPT !.op = "request",
                                 !.auth_required = auth_required,
                                 !.allow = allow,
                                 !.ensure_fresh =
                                     auth_required /\ WithinMargin(_token, now)]
       IN IF ~auth_required
          THEN /\ call' = [call EXCEPT ![t] =
                              [c EXCEPT !.pc = "http1", !.attempts = 1]]
               /\ KeepToken
          ELSE IF NeedsLogin(_token, now)
          THEN /\ call' = [call EXCEPT ![t] =
                              [c EXCEPT !.pc = "ensure_login", !.logins = 1,
                                        !.ensure_login = TRUE]]
               /\ KeepToken
          ELSE /\ call' = [call EXCEPT ![t] =
                              SendWith(c, _token, now)]
               /\ _access_token' = _token.access_token
               /\ UNCHANGED <<_token, _refresh_token>>
    /\ UNCHANGED <<now, coordVars, fnVars, hassVars>>

\* The login started by _ensure_access_token comes back (lines 118-126,
\* then 182-189 or 195-201): on success the new token is stored, attached
\* and the attempt is sent; a failure ends the call.
EnsureLoginDone(t, resp) ==
    /\ call[t].pc = "ensure_login"
    /\ LET c == [call[t] EXCEPT !.net_failed = resp.net_failed]
       IN IF LoginResult(resp) = "ok"
          THEN /\ StoreToken(resp)
               /\ call' = [call EXCEPT ![t] =
                              SendWith(c, TokenFrom(resp, now), now)]
          ELSE /\ KeepToken
               /\ call' = [call EXCEPT ![t] = LoginFails(c, resp)]
    /\ UNCHANGED <<now, coordVars, fnVars, hassVars>>

\* _force_reauthenticate up to its suspension (lines 130-133): the token
\* cache is dropped and a login is started.
ForceReauthenticate(c) ==
    [c EXCEPT !.pc = "reauth_login", !.logins = c.logins + 1,
              !.relogins = c.relogins + 1]

\* Whether _request takes its retry path (line 191).
RetriesOn(c, status) == c.auth_required /\ status \in AUTH_REJECTED

\* The first HTTP attempt comes back (lines 184-226).
FirstAttemptDone(t, resp) ==
    /\ call[t].pc = "http1"
    /\ LET c == [call[t] EXCEPT !.net_failed = resp.net_failed,
                                !.status = resp.status,
                                !.first_status = resp.status,
                                !.code_entry = resp.code_entry]
       IN IF resp.net_failed
          THEN /\ call' = [call EXCEPT ![t] = OnNetworkFailure(c)]
               /\ KeepToken
          ELSE IF RetriesOn(c, resp.status)
          THEN /\ call' = [call EXCEPT ![t] = ForceReauthenticate(c)]
               /\ _token' = NoToken
               /\ _access_token' = None
               /\ _refresh_token' = None
          ELSE /\ call' = [call EXCEPT ![t] =
                     Finish(c, ResponseResult(resp.status, resp.code_entry,
                                              c.allow))]
               /\ KeepToken
    /\ UNCHANGED <<now, coordVars, fnVars, hassVars>>

\* The login of _force_reauthenticate comes back (lines 193-201): on
\* success _ensure_access_token runs at once on the new token and either
\* starts another login or returns it for the retry.
ReauthLoginDone(t, resp) ==
    /\ call[t].pc = "reauth_login"
    /\ LET tok == TokenFrom(resp, now)
           c == [call[t] EXCEPT !.net_failed = resp.net_failed]
           e == [c EXCEPT !.ensure_fresh = WithinMargin(tok, now),
                          !.ensure_login = FALSE]
       IN IF LoginResult(resp) # "ok"
          THEN /\ KeepToken
               /\ call' = [call EXCEPT ![t] = LoginFails(c, resp)]
          ELSE /\ StoreToken(resp)
               /\ IF NeedsLogin(tok, now)
                  THEN call' = [call EXCEPT ![t] =
                          [e EXCEPT !.pc = "ensure_login",
                                    !.logins = c.logins + 1,
                                    !.relogins = c.relogins + 1,
                                    !.ensure_login = TRUE]]
                  ELSE call' = [call EXCEPT ![t] = SendWith(e, tok, now)]
    /\ UNCHANGED <<now, coordVars, fnVars, hassVars>>

\* RetryDone dropping the token cache when the retry is rejected too.
RetryDone_DroppingToken(t, resp) ==
    /\ call[t].pc = "http2"
    /\ LET c == [call[t] EXCEPT !.net_failed = resp.net_failed,
                                !.status = resp.status,
                                !.code_entry = resp.code_entry]
       IN call' = [call EXCEPT ![t] =
              IF resp.net_failed THEN Finish(c, "ConnectionError")
              ELSE Finish(c, ResponseResult(resp.status, resp.code_entry,
                                            c.allow))]
    /\ IF ~resp.net_failed /\ resp.status \in AUTH_REJECTED
       THEN /\ _token' = NoToken
            /\ _access_token' = None
            /\ _refresh_token' = None
       ELSE KeepToken
    /\ UNCHANGED <<now, coordVars, fnVars, hassVars>>

\* The retry comes back (lines 196-226).
RetryDone(t, resp) ==
    /\ call[t].pc = "http2"
    /\ LET c == [call[t] EXCEPT !.net_failed = resp.net_failed,
                                !.status = resp.status,
                                !.code_entry = resp.code_entry]
       IN call' = [call EXCEPT ![t] =
              IF resp.net_failed THEN OnNetworkFailure(c)
              ELSE Finish(c, ResponseResult(resp.status, resp.code_entry,
                                            c.allow))]
    /\ KeepToken
    /\ UNCHANGED <<now, coordVars, fnVars, hassVars>>

\* --------------------------------------------- WattsApiClient.async_login
\* async_login called on its own (config entry setup), up to its suspension.
StartLogin(t) ==
    /\ call[t].pc \in {"idle", "done"}
    /\ call' = [call EXCEPT ![t] =
                   [IdleCall EXCEPT !.pc = "login", !.op = "login",
                                    !.logins = 1]]
    /\ KeepToken
    /\ UNCHANGED <<now, coordVars, fnVars, hassVars>>

\* Its exchange comes back (lines 94-113).
LoginDone(t, resp) ==
    /\ call[t].pc = "login"
    /\ LET c == [call[t] EXCEPT !.net_failed = resp.net_failed]
       IN IF LoginResult(resp) = "ok"
          THEN /\ StoreToken(resp)
               /\ call' = [call EXCEPT ![t] = Finish(c, "ok")]
          ELSE /\ KeepToken
               /\ call' = [call EXCEPT ![t] = LoginFails(c, resp)]
    /\ UNCHANGED <<now, coordVars, fnVars, hassVars>>

\* time.monotonic() advances while the tasks are suspended.
Tick ==
    /\ now < MaxTime
    /\ now' = now + 1
    /\ UNCHANGED <<_token, _access_token, _refresh_token, call, coordVars,
                   fnVars, hassVars>>

\* =========================================================== coordinator
\* JSON values of the vendor payloads: None, a string (a sequence of
\* tokens, so that ids can be split at "#"), a list of strings, or a
\* mapping whose content is not looked into.
NoneV == [t |-> "none", s |-> <<>>, l |-> <<>>]
Str(tokens) == [t |-> "str", s |-> tokens, l |-> <<>>]
List(items) == [t |-> "list", s |-> <<>>, l |-> items]
Dict(tokens) == [t |-> "dict", s |-> tokens, l |-> <<>>]

\* `value in (None, "", [])`
IsEmpty(v) == v \in {NoneV, Str(<<>>), List(<<>>)}

\* A Python dict with string keys.
EmptyDict == [k \in {} |-> NoneV]
Get(d, k) == IF k \in DOMAIN d THEN d[k] ELSE NoneV
Put(d, k, v) == [x \in DOMAIN d \cup {k} |-> IF x = k THEN v ELSE d[x]]
SetDefault(d, k, v) == IF k \in DOMAIN d THEN d ELSE Put(d, k, v)

\* str.split("#", 1)[1]: what follows the first "#".
RECURSIVE AfterHash(_)
AfterHash(tokens) ==
    IF tokens = <<>> THEN <<>>
    ELSE IF Head(tokens) = "#" THEN Tail(tokens)
    ELSE AfterHash(Tail(tokens))

HasHash(tokens) == \E i \in 1..Len(tokens) : tokens[i] = "#"

\* _resolve_device_id, lines 146-153, on the string of an id; <<>> stands
\* for None and for the empty string, which the callers treat alike.
_resolve_device_id(raw_id) ==
    IF raw_id = <<>> THEN <<>>
    ELSE IF HasHash(raw_id) THEN AfterHash(raw_id)
    ELSE raw_id

\* _device_id_from_payload, lines 156-158:
\* device.get("id_device") or device.get("id").
_device_id_from_payload(device) ==
    _resolve_device_id(
        IF Get(device, "id_device").s # <<>> THEN Get(device, "id_device").s
        ELSE Get(device, "id").s)

\* _merge_non_empty, lines 161-171.
_merge_non_empty(target, source) ==
    [k \in DOMAIN target \cup DOMAIN source |->
        IF k \notin DOMAIN source THEN target[k]
        ELSE IF k \notin DOMAIN target THEN source[k]
        ELSE IF IsEmpty(target[k]) THEN source[k]
        ELSE IF ~IsEmpty(source[k]) THEN source[k]
        ELSE target[k]]

ZONE_KEYS == <<"zone_label", "num_zone", "label_zone_type",
               "picto_zone_type", "zone_img_id">>

\* upsert_device, lines 201-210: the zone's non-empty metadata is copied.
RECURSIVE CopyZoneKeys(_, _, _)
CopyZoneKeys(device_data, zone, i) ==
    IF i > Len(ZONE_KEYS) THEN device_data
    ELSE CopyZoneKeys(
             IF ~IsEmpty(Get(zone, ZONE_KEYS[i]))
             THEN Put(device_data, ZONE_KEYS[i], zone[ZONE_KEYS[i]])
             ELSE device_data,
             zone, i + 1)

\* upsert_device, lines 184-210; devices_by_id is a function from the
\* resolved ids to the merged device dicts.
upsert_device(devices_by_id, smarthome_id, payload, zone, explicit_device_id) ==
    LET device_id == IF _resolve_device_id(explicit_device_id) # <<>>
                     THEN _resolve_device_id(explicit_device_id)
                     ELSE _device_id_from_payload(payload)
        old == IF device_id \in DOMAIN devices_by_id
               THEN devices_by_id[device_id] ELSE EmptyDict
        merged == _merge_non_empty(old, payload)
        with_ids == SetDefault(
                        SetDefault(merged, "id_device", Str(device_id)),
                        "id", Str(<<smarthome_id, "#">> \o device_id))
        device_data == IF zone # EmptyDict
                       THEN CopyZoneKeys(with_ids, zone, 1) ELSE with_ids
    IN IF device_id = <<>> THEN devices_by_id
       ELSE [d \in DOMAIN devices_by_id \cup {device_id} |->
                IF d = device_id THEN device_data ELSE devices_by_id[d]]

\* _normalize_devices, lines 212-214 and 219-221: a list of device payloads
\* is upserted in order.
RECURSIVE UpsertAll(_, _, _, _, _)
UpsertAll(devices_by_id, smarthome_id, devices, zone, i) ==
    IF i > Len(devices) THEN devices_by_id
    ELSE UpsertAll(
             upsert_device(devices_by_id, smarthome_id, devices[i], zone, <<>>),
             smarthome_id, devices, zone, i + 1)

\* lines 216-221: the zones in order, each with its devices.
RECURSIVE UpsertZones(_, _, _, _)
UpsertZones(devices_by_id, smarthome_id, zones, i) ==
    IF i > Len(zones) THEN devices_by_id
    ELSE UpsertZones(
             UpsertAll(devices_by_id, smarthome_id, zones[i].devices,
                       zones[i].meta, 1),
             smarthome_id, zones, i + 1)

\* lines 223-231: the error payloads of this smarthome, keyed by device id.
RECURSIVE UpsertErrors(_, _, _, _)
UpsertErrors(devices_by_id, smarthome_id, items, i) ==
    IF i > Len(items) THEN devices_by_id
    ELSE UpsertErrors(
             upsert_device(devices_by_id, smarthome_id, items[i].payload,
                           EmptyDict, items[i].id),
             smarthome_id, items, i + 1)

\* lines 233-247: the statistics, keyed by device id.
RECURSIVE AttachStats(_, _, _, _)
AttachStats(devices_by_id, smarthome_id, items, i) ==
    IF i > Len(items) THEN devices_by_id
    ELSE LET id == _resolve_device_id(items[i].id)
             old == IF id \in DOMAIN devices_by_id THEN devices_by_id[id]
                    ELSE [k \in {"id_device", "id"} |->
                             IF k = "id_device" THEN Str(id)
                             ELSE Str(<<smarthome_id, "#">> \o id)]
             new == IF items[i].payload.t = "dict"
                    THEN Put(old, "stats", items[i].payload) ELSE old
         IN AttachStats(
                IF id = <<>> THEN devices_by_id
                ELSE [d \in DOMAIN devices_by_id \cup {id} |->
                         IF d = id THEN new ELSE devices_by_id[d]],
                smarthome_id, items, i + 1)

\* lines 249-253: every device has a list of errors and a dict of stats.
WithDefaults(device_data) ==
    LET e == IF Get(device_data, "errors").t = "list" THEN device_data
             ELSE Put(device_data, "errors", List(<<>>))
    IN IF Get(e, "stats").t = "dict" THEN e ELSE Put(e, "stats", Dict(<<>>))

\* errors.get("results", {}).get("by_device", {}).get(smarthome_id, {})
ErrorsOf(errors, smarthome_id) ==
    IF smarthome_id \in DOMAIN errors.by_device
    THEN errors.by_device[smarthome_id] ELSE <<>>

\* _normalize_devices, lines 174-257: devices_by_id.
NormalizeById(smarthome_id, details, errors, stats) ==
    LET flat == UpsertAll(EmptyDict, smarthome_id, details.devices,
                          EmptyDict, 1)
        zoned == UpsertZones(flat, smarthome_id, details.zones, 1)
        erred == UpsertErrors(zoned, smarthome_id,
                              ErrorsOf(errors, smarthome_id), 1)
        stat == AttachStats(erred, smarthome_id, stats.devices, 1)
    IN [d \in DOMAIN stat |-> WithDefaults(stat[d])]

\* sorted(devices_by_id) over the device ids of the payloads.
DEVICE_ORDER == <<<<"D1">>, <<"D2">>, <<"D3">>, <<"D4">>>>

\* _normalize_devices, lines 255-256: the devices in the order of their ids.
DevicesOf(devices_by_id) ==
    LET ids == SelectSeq(DEVICE_ORDER, LAMBDA d : d \in DOMAIN devices_by_id)
    IN [i \in 1..Len(ids) |-> devices_by_id[ids[i]]]

\* ------------------------------------------------------------- payloads
\* A dict from a sequence of <<key, value>> pairs.
DictOf(pairs) ==
    [k \in {pairs[i][1] : i \in 1..Len(pairs)} |->
        LET i == CHOOSE j \in 1..Len(pairs) : pairs[j][1] = k IN pairs[i][2]]

\* The smarthome ids of the account; "" is a summary without smarthome_id.
HomeIds == {"SH1", "SH2"}
Summary(smarthome_id) == [smarthome_id |-> smarthome_id]

\* user/read: the `data` of the response, or a response without `data`.
UserData(ids) ==
    [smarthomes |-> [i \in 1..Len(ids) |-> Summary(ids[i])]]
UserPayloads ==
    {[has_data |-> FALSE, data |-> UserData(<<>>)]}
    \cup {[has_data |-> TRUE, data |-> UserData(ids)] :
            ids \in {<<>>, <<"SH1">>, <<"", "SH2">>, <<"SH1", "SH2">>}}

\* smarthome/read: no devices, or device D1 in the flat list and again in a
\* zone (with another label) beside a device D2 that has a composite id only.
NoDetails == [devices |-> <<>>, zones |-> <<>>]
ZonedDetails(sh) ==
    [devices |->
        <<DictOf(<<<<"id_device", Str(<<"D1">>)>>,
                   <<"id", Str(<<sh, "#", "D1">>)>>,
                   <<"label", Str(<<"a">>)>>>>)>>,
     zones |->
        <<[meta |-> DictOf(<<<<"zone_label", Str(<<"Z">>)>>,
                             <<"num_zone", Str(<<>>)>>>>),
           devices |->
               <<DictOf(<<<<"id_device", Str(<<"D1">>)>>,
                          <<"label", Str(<<"b">>)>>,
                          <<"bundle_id", Str(<<>>)>>>>),
                 DictOf(<<<<"id", Str(<<sh, "#", "D2">>)>>,
                          <<"label", Str(<<>>)>>>>)>>]>>]
DetailPayloads(sh) ==
    IF sh = "SH1" THEN {NoDetails, ZonedDetails(sh)} ELSE {NoDetails}

\* smarthome/get_errors: `data` without results, or one error for D1.
NoErrors == [by_device |-> EmptyDict]
D1Errors(sh) ==
    [by_device |->
        [h \in {sh} |->
            <<[id |-> <<"D1">>,
               payload |-> DictOf(<<<<"errors", List(<<"E1">>)>>>>)]>>]]

\* The statistics endpoint: no devices, or statistics for a device D3 that
\* no other payload names. The coordinator calls async_get_stats of the API
\* client (line 83), which api.py does not define; the call is taken to be
\* a wrapper of _request like the other endpoints, ending as they do.
NoStats == [devices |-> <<>>]
D3Stats(sh) ==
    [devices |-> <<[id |-> <<sh, "#", "D3">>, payload |-> Dict(<<"s">>)]>>]

\* check_last_connexion and time_offset: `data` is not looked into.
SomeData == Dict(<<"x">>)
NoDataDict == Dict(<<>>)

\* How a call of the API client ends for the coordinator.
CallResults == {"ok", "ApiError", "AuthError", "ConnectionError"}

\* The endpoints fetched through _safe_smarthome_call, in call order
\* (lines 63-84).
SAFE_ENDPOINTS == <<"errors", "last_connection", "time_offset", "stats">>

\* The `data` a safe endpoint may answer with.
SafePayloads(endpoint, sh) ==
    CASE endpoint = "errors" -> {NoErrors, D1Errors(sh)}
      [] endpoint = "stats" -> {NoStats, D3Stats(sh)}
      [] OTHER -> {SomeData}

\* The results each safe endpoint is driven with. A degraded
\* last_connection or time_offset takes the same path as a degraded error
\* list, so these two are driven with success and with the errors that
\* _safe_smarthome_call does not catch.
SafeResults(endpoint) ==
    IF endpoint \in {"errors", "stats"} THEN CallResults
    ELSE {"ok", "AuthError", "ConnectionError"}

\* ----------------------------------------------------- WattsCoordinator
NoData == [present |-> FALSE, user |-> UserData(<<>>),
           smarthomes |-> EmptyDict]

IdleRefresh ==
    [pc |-> "idle", idx |-> 0, user_data |-> UserData(<<>>),
     smarthome_data |-> EmptyDict, details |-> NoDetails,
     errors_data |-> NoErrors, last_connection_data |-> NoDataDict,
     time_offset_data |-> NoDataDict]

\* No refresh has ended yet, or one is running.
NoOutcome == [exception |-> "", message |-> "", cause |-> "",
              endpoint |-> "", polling |-> TRUE]

InitCoordinator ==
    /\ data = NoData
    /\ _smarthomes = <<>>
    /\ refresh = IdleRefresh
    /\ last = NoOutcome
    /\ pre = [data |-> NoData, smarthomes |-> <<>>]

\* The entry of a smarthome whose fetches succeeded (lines 85-98).
FullEntry(smarthome, details, errors, last_connection, time_offset, stats) ==
    LET by_id == NormalizeById(smarthome.smarthome_id, details, errors, stats)
    IN [keys |-> "details", info |-> smarthome, error |-> "",
        details |-> details, errors |-> errors,
        last_connection |-> last_connection, time_offset |-> time_offset,
        stats |-> stats, devices |-> DevicesOf(by_id),
        devices_by_id |-> by_id]

\* The entry of a smarthome whose fetch raised WattsApiError (lines 100-108).
ErrorEntry(smarthome, err) ==
    [keys |-> "error", info |-> smarthome, error |-> err,
     details |-> NoDetails, errors |-> NoErrors,
     last_connection |-> NoDataDict, time_offset |-> NoDataDict,
     stats |-> NoStats, devices |-> <<>>, devices_by_id |-> EmptyDict]

\* The refresh ends with an exception: the framework keeps the published
\* data and, for UpdateFailed as for any unexpected exception, schedules
\* the next poll.
RefreshFails(exception, message, cause, endpoint) ==
    /\ refresh' = IdleRefresh
    /\ last' = [exception |-> exception, message |-> message,
                cause |-> cause, endpoint |-> endpoint, polling |-> TRUE]
    /\ UNCHANGED <<data, _smarthomes>>

\* An exception leaves _async_update_data (lines 115-118): WattsAuthError
\* and WattsApiError are wrapped in UpdateFailed, WattsConnectionError is
\* not caught.
Raised(err) ==
    CASE err = "AuthError" ->
             [exception |-> "UpdateFailed", message |-> "Authentication error"]
      [] err = "ApiError" ->
             [exception |-> "UpdateFailed", message |-> "API error"]
      [] OTHER ->
             [exception |-> "WattsConnectionError", message |-> ""]

Propagate(err, endpoint) ==
    RefreshFails(Raised(err).exception, Raised(err).message, err, endpoint)

\* The loop of lines 50-53: the next smarthome with an id, from position i.
RECURSIVE NextHome(_, _)
NextHome(smarthomes, i) ==
    IF i > Len(smarthomes) THEN 0
    ELSE IF smarthomes[i].smarthome_id # "" THEN i
    ELSE NextHome(smarthomes, i + 1)

\* The loop goes on from position i with smarthome_data: either the detail
\* fetch of the next smarthome is awaited (lines 57-61), or the snapshot is
\* returned (lines 110-113) and the framework publishes it.
Continue(smarthomes, user_data, smarthome_data, i) ==
    IF NextHome(smarthomes, i) # 0
    THEN /\ refresh' = [IdleRefresh EXCEPT
                           !.pc = "details",
                           !.idx = NextHome(smarthomes, i),
                           !.user_data = user_data,
                           !.smarthome_data = smarthome_data]
         /\ UNCHANGED <<data, last>>
    ELSE /\ refresh' = IdleRefresh
         /\ data' = [present |-> TRUE, user |-> user_data,
                     smarthomes |-> smarthome_data]
         /\ last' = [exception |-> "None", message |-> "", cause |-> "",
                     endpoint |-> "", polling |-> TRUE]

\* The read accessors, over the published data d and the list s of
\* smarthomes (lines 259-276); a lookup that returns None is <<>>, one
\* that returns an entry is <<entry>>.
smarthomes(s) == s

get_smarthome_data(d, smarthome_id) ==
    IF ~d.present THEN <<>>
    ELSE IF smarthome_id \in DOMAIN d.smarthomes
    THEN <<d.smarthomes[smarthome_id]>> ELSE <<>>

get_smarthome_devices(d, smarthome_id) ==
    IF get_smarthome_data(d, smarthome_id) = <<>> THEN <<>>
    ELSE get_smarthome_data(d, smarthome_id)[1].devices

\* The id of the smarthome the loop body is working on.
CurrentHome ==
    IF refresh.idx \in 1..Len(_smarthomes)
    THEN _smarthomes[refresh.idx].smarthome_id ELSE ""

\* The framework starts _async_update_data, which awaits async_get_user_data
\* (line 40).
StartRefresh ==
    /\ refresh.pc = "idle"
    /\ refresh' = [IdleRefresh EXCEPT !.pc = "user"]
    /\ last' = NoOutcome
    /\ pre' = [data |-> data, smarthomes |-> _smarthomes]
    /\ UNCHANGED <<data, _smarthomes, apiVars, fnVars, hassVars>>

\* async_get_user_data comes back (lines 40-53).
UserDataDone(result, payload) ==
    /\ refresh.pc = "user"
    /\ IF result # "ok" THEN Propagate(result, "user")
       ELSE IF ~payload.has_data
       THEN RefreshFails("UpdateFailed", "Invalid response from user API",
                         "", "user")
       ELSE /\ _smarthomes' = payload.data.smarthomes
            /\ Continue(payload.data.smarthomes, payload.data, EmptyDict, 1)
    /\ UNCHANGED <<pre, apiVars, fnVars, hassVars>>

\* SmarthomeDataDone without the handler of lines 100-108: a WattsApiError
\* of the detail fetch leaves the loop.
SmarthomeDataDone_ApiErrorFatal(result, payload) ==
    /\ refresh.pc = "details"
    /\ IF result # "ok" THEN Propagate(result, "details")
       ELSE /\ refresh' = [refresh EXCEPT !.pc = "errors",
                                          !.details = payload]
            /\ UNCHANGED <<data, _smarthomes, last>>
    /\ UNCHANGED <<pre, apiVars, fnVars, hassVars>>

\* async_get_smarthome_data comes back (lines 57-67 and 100-108).
SmarthomeDataDone(result, payload) ==
    /\ refresh.pc = "details"
    /\ LET smarthome == _smarthomes[refresh.idx]
       IN IF result = "ApiError"
          THEN /\ Continue(_smarthomes, refresh.user_data,
                           Put(refresh.smarthome_data, smarthome.smarthome_id,
                               ErrorEntry(smarthome, result)),
                           refresh.idx + 1)
               /\ UNCHANGED _smarthomes
          ELSE IF result # "ok" THEN Propagate(result, "details")
          ELSE /\ refresh' = [refresh EXCEPT !.pc = "errors",
                                             !.details = payload]
               /\ UNCHANGED <<data, _smarthomes, last>>
    /\ UNCHANGED <<pre, apiVars, fnVars, hassVars>>

\* _safe_smarthome_call, lines 127-143: what the call yields, or the error
\* it lets through.
SafeCatches(result) == result = "ApiError"

\* The locals of the loop body with the data of one safe endpoint.
WithSafeData(r, endpoint, d) ==
    CASE endpoint = "errors" -> [r EXCEPT !.pc = "last_connection",
                                         !.errors_data = d]
      [] endpoint = "last_connection" -> [r EXCEPT !.pc = "time_offset",
                                                  !.last_connection_data = d]
      [] OTHER -> [r EXCEPT !.pc = "stats", !.time_offset_data = d]

\* A call made through _safe_smarthome_call comes back (lines 63-98 and
\* 100-108); after the last one the devices are normalized and the entry
\* of the smarthome is stored.
SafeCallDone(endpoint, result, payload) ==
    /\ refresh.pc = endpoint
    /\ LET smarthome == _smarthomes[refresh.idx]
           empty == CASE endpoint = "errors" -> NoErrors
                      [] endpoint = "stats" -> NoStats
                      [] OTHER -> NoDataDict
           d == IF result = "ok" THEN payload ELSE empty
       IN IF result # "ok" /\ ~SafeCatches(result)
          THEN Propagate(result, endpoint)
          ELSE IF endpoint # "stats"
          THEN /\ refresh' = WithSafeData(refresh, endpoint, d)
               /\ UNCHANGED <<data, _smarthomes, last>>
          ELSE /\ Continue(_smarthomes, refresh.user_data,
                           Put(refresh.smarthome_data, smarthome.smarthome_id,
                               FullEntry(smarthome, refresh.details,
                                         refresh.errors_data,
                                         refresh.last_connection_data,
                                         refresh.time_offset_data, d)),
                           refresh.idx + 1)
               /\ UNCHANGED _smarthomes
    /\ UNCHANGED <<pre, apiVars, fnVars, hassVars>>

NextRefresh ==
    \/ StartRefresh
    \/ \E res \in CallResults, p \in UserPayloads : UserDataDone(res, p)
    \/ \E res \in CallResults :
         \E p \in DetailPayloads(CurrentHome) : SmarthomeDataDone(res, p)
    \/ \E i \in 1..Len(SAFE_ENDPOINTS) :
         \E res \in SafeResults(SAFE_ENDPOINTS[i]) :
            \E p \in SafePayloads(SAFE_ENDPOINTS[i], CurrentHome) :
               SafeCallDone(SAFE_ENDPOINTS[i], res, p)

\* ================================================================= models
\* No function of models.py or formatting.py has been called.
NoCall == [op |-> "none"]
InitFn ==
    /\ args = NoCall
    /\ returned = NoCall

\* The decimal digits, for int(...) and str(...) of a number.
DIGITS == <<"0", "1", "2", "3", "4", "5", "6", "7", "8", "9">>
IsDigit(c) == \E i \in 1..Len(DIGITS) : DIGITS[i] = c
DigitOf(c) == (CHOOSE i \in 1..Len(DIGITS) : DIGITS[i] = c) - 1

RECURSIVE NatOf(_)
NatOf(ds) ==
    IF ds = <<>> THEN 0
    ELSE NatOf(SubSeq(ds, 1, Len(ds) - 1)) * Len(DIGITS) + DigitOf(ds[Len(ds)])

\* str(n) of an int.
RECURSIVE StrOfNat(_)
StrOfNat(n) ==
    IF n < Len(DIGITS) THEN <<DIGITS[n + 1]>>
    ELSE StrOfNat(n \div Len(DIGITS)) \o <<DIGITS[(n % Len(DIGITS)) + 1]>>
StrOfInt(n) == IF n < 0 THEN <<"-">> \o StrOfNat(-n) ELSE StrOfNat(n)

\* _as_str, lines 27-31: "" for None, else the stripped string.
_as_str(value) == IF value.t = "str" THEN Strip(value.s) ELSE <<>>

\* The text of a float as float(...) reads it: a sign, digits, and a
\* fraction after a point.
Unsigned(text) ==
    IF text # <<>> /\ Head(text) = "-" THEN Tail(text) ELSE text
HasPoint(u) == \E i \in 1..Len(u) : u[i] = "."
PointAt(u) == CHOOSE i \in 1..Len(u) : u[i] = "." /\ \A j \in 1..(i - 1) : u[j] # "."
WholePart(u) == IF HasPoint(u) THEN SubSeq(u, 1, PointAt(u) - 1) ELSE u
FractionPart(u) ==
    IF HasPoint(u) THEN SubSeq(u, PointAt(u) + 1, Len(u)) ELSE <<>>
IsFloatText(text) ==
    LET u == Unsigned(text)
    IN /\ WholePart(u) \o FractionPart(u) # <<>>
       /\ \A i \in 1..Len(WholePart(u)) : IsDigit(WholePart(u)[i])
       /\ \A i \in 1..Len(FractionPart(u)) : IsDigit(FractionPart(u)[i])

\* _as_int, lines 34-42: int(float(text)), or None. An optional int is
\* <<>> for None and <<n>> for n.
_as_int(value) ==
    LET text == _as_str(value)
    IN IF text = <<>> \/ ~IsFloatText(text) THEN <<>>
       ELSE IF Head(text) = "-" THEN <<0 - NatOf(WholePart(Unsigned(text)))>>
       ELSE <<NatOf(WholePart(text))>>

\* `x or 0` of an optional int.
OrZero(x) == IF x = <<>> THEN 0 ELSE x[1]

\* const.py, lines 66-78.
SETPOINT_COMFORT == "consigne_confort"
SETPOINT_ECO == "consigne_eco"
SETPOINT_ANTI_FROST == "consigne_hg"
SETPOINT_BOOST == "consigne_boost"
SETPOINT_MANUAL == "consigne_manuel"
BOOST_TIMER == "time_boost"
SETPOINT_KEYS ==
    <<SETPOINT_COMFORT, SETPOINT_ECO, SETPOINT_ANTI_FROST, SETPOINT_BOOST>>
\* (*SETPOINT_KEYS, SETPOINT_MANUAL)
SETPOINT_AND_MANUAL_KEYS == SETPOINT_KEYS \o <<SETPOINT_MANUAL>>

\* The elements of a sequence.
Range(seq) == {seq[i] : i \in 1..Len(seq)}

\* parse_user_profile, lines 292-322: the summaries that have an id, in
\* the order of the payload.
RECURSIVE parse_user_profile(_)
parse_user_profile(raw_smarthomes) ==
    IF raw_smarthomes = <<>> THEN <<>>
    ELSE IF Head(raw_smarthomes).smarthome_id = ""
    THEN parse_user_profile(Tail(raw_smarthomes))
    ELSE <<Head(raw_smarthomes)>> \o parse_user_profile(Tail(raw_smarthomes))

\* parse_smarthome, lines 333-337: the ids of the devices of a zone.
RECURSIVE ZoneDeviceIds(_)
ZoneDeviceIds(zone_devices) ==
    IF zone_devices = <<>> THEN <<>>
    ELSE LET zone_device_id == _as_str(Get(Head(zone_devices), "id_device"))
         IN (IF zone_device_id = <<>> THEN <<>> ELSE <<zone_device_id>>)
            \o ZoneDeviceIds(Tail(zone_devices))

\* WattsZone of a raw zone, lines 339-346.
WattsZone(zone_raw) ==
    [num_zone |-> _as_str(Get(zone_raw.meta, "num_zone")),
     zone_label |-> _as_str(Get(zone_raw.meta, "zone_label")),
     zone_type_label |-> _as_str(Get(zone_raw.meta, "label_zone_type")),
     zone_type_icon |-> _as_str(Get(zone_raw.meta, "picto_zone_type")),
     zone_image_id |-> _as_str(Get(zone_raw.meta, "zone_img_id")),
     device_ids |-> ZoneDeviceIds(zone_raw.devices)]

\* zones, lines 330-347.
ParseZones(zones_raw) == [i \in 1..Len(zones_raw) |-> WattsZone(zones_raw[i])]

\* zone_lookup, lines 348-349: the last zone that names a device.
ZoneLookup(zones) ==
    [id \in UNION {Range(zones[i].device_ids) : i \in 1..Len(zones)} |->
        zones[CHOOSE i \in 1..Len(zones) :
                 /\ id \in Range(zones[i].device_ids)
                 /\ \A j \in (i + 1)..Len(zones) :
                        id \notin Range(zones[j].device_ids)]]

\* WattsDevice of a raw device, lines 358-386.
WattsDevice(smarthome_id, raw_device, zone_lookup) ==
    LET id_device == _as_str(Get(raw_device, "id_device"))
        has_zone == id_device \in DOMAIN zone_lookup
        known == {k \in Range(SETPOINT_AND_MANUAL_KEYS) :
                     _as_int(Get(raw_device, k)) # <<>>}
    IN [smarthome_id |-> smarthome_id,
        id |-> _as_str(Get(raw_device, "id")),
        id_device |-> id_device,
        name |-> _as_str(Get(raw_device, "nom_appareil")),
        zone_id |-> IF has_zone THEN zone_lookup[id_device].num_zone
                    ELSE _as_str(Get(raw_device, "num_zone")),
        zone_name |-> IF has_zone THEN zone_lookup[id_device].zone_label
                      ELSE <<>>,
        bundle_id |-> _as_str(Get(raw_device, "bundle_id")),
        gv_mode |-> _as_str(Get(raw_device, "gv_mode")),
        nv_mode |-> _as_str(Get(raw_device, "nv_mode")),
        temperature_air_raw |-> _as_int(Get(raw_device, "temperature_air")),
        temperature_floor_raw |-> _as_int(Get(raw_device, "temperature_sol")),
        heating_up |-> _as_str(Get(raw_device, "heating_up")) = <<"1">>,
        error_code |-> OrZero(_as_int(Get(raw_device, "error_code"))),
        min_set_point_raw |-> _as_int(Get(raw_device, "min_set_point")),
        max_set_point_raw |-> _as_int(Get(raw_device, "max_set_point")),
        time_boost_seconds |-> OrZero(_as_int(Get(raw_device, BOOST_TIMER))),
        setpoints_raw |-> [k \in known |-> _as_int(Get(raw_device, k))[1]],
        errors |-> <<>>]

\* add_raw_device without the test `id_device in devices_by_id`, on a list
\* of devices: every occurrence is kept.
add_raw_device_NoDedup(devices, smarthome_id, raw_device, zone_lookup) ==
    LET id_device == _as_str(Get(raw_device, "id_device"))
    IN IF id_device = <<>> THEN devices
       ELSE Append(devices, WattsDevice(smarthome_id, raw_device, zone_lookup))

\* add_raw_device, lines 353-386, on the devices parsed so far (the values
\* of devices_by_id in insertion order).
add_raw_device(devices, smarthome_id, raw_device, zone_lookup) ==
    LET id_device == _as_str(Get(raw_device, "id_device"))
    IN IF id_device = <<>>
          \/ \E i \in 1..Len(devices) : devices[i].id_device = id_device
       THEN devices
       ELSE Append(devices, WattsDevice(smarthome_id, raw_device, zone_lookup))

\* Lines 388-390 and 394-395: add_raw_device for each device of a list.
RECURSIVE AddRawDevices(_, _, _, _)
AddRawDevices(devices, smarthome_id, raw_devices, zone_lookup) ==
    IF raw_devices = <<>> THEN devices
    ELSE AddRawDevices(
             add_raw_device(devices, smarthome_id, Head(raw_devices),
                            zone_lookup),
             smarthome_id, Tail(raw_devices), zone_lookup)

\* Lines 392-395: the devices of every zone.
RECURSIVE AddZoneDevices(_, _, _, _)
AddZoneDevices(devices, smarthome_id, zones_raw, zone_lookup) ==
    IF zones_raw = <<>> THEN devices
    ELSE AddZoneDevices(
             AddRawDevices(devices, smarthome_id, Head(zones_raw).devices,
                           zone_lookup),
             smarthome_id, Tail(zones_raw), zone_lookup)

\* parse_smarthome, lines 325-432, on the `data` of a smarthome/read
\* response that carries no smarthome_id of its own or echoes the
\* requested one. The scalar fields of the smarthome besides its id are
\* parsed with _as_str like those of a device and are left out.
parse_smarthome(payload, smarthome_id) ==
    LET zones == ParseZones(payload.zones)
        zone_lookup == ZoneLookup(zones)
    IN [smarthome_id |-> smarthome_id,
        zones |-> zones,
        devices |-> AddZoneDevices(
                        AddRawDevices(<<>>, smarthome_id, payload.devices,
                                      zone_lookup),
                        smarthome_id, payload.zones, zone_lookup)]

\* WattsDeviceError of the raw errors of a device, lines 453-461.
DeviceErrors(raw_errors) ==
    [i \in 1..Len(raw_errors) |->
        [code |-> _as_str(Get(raw_errors[i], "code")),
         title |-> _as_str(Get(raw_errors[i], "title")),
         message |-> _as_str(Get(raw_errors[i], "error"))]]

\* The raw devices of a get_errors payload, every smarthome's
\* (lines 442-447).
RawErrorDevices(payload) ==
    UNION {{payload.by_device[h][i].payload :
                i \in 1..Len(payload.by_device[h])} :
           h \in DOMAIN payload.by_device}

\* parse_smarthome_errors, lines 435-464: the errors per id_device. The
\* payloads name a device once, so the order of the dicts does not show.
parse_smarthome_errors(payload) ==
    LET named == {d \in RawErrorDevices(payload) :
                     _as_str(Get(d, "id_device")) # <<>>}
    IN [id \in {_as_str(Get(d, "id_device")) : d \in named} |->
           DeviceErrors(
               Get(CHOOSE d \in named : _as_str(Get(d, "id_device")) = id,
                   "errors").l)]

\* WattsSmarthome.with_error_map, lines 256-259.
with_error_map(smarthome, error_map) ==
    [smarthome EXCEPT
        !.devices = [i \in 1..Len(smarthome.devices) |->
            [smarthome.devices[i] EXCEPT
                !.errors = IF smarthome.devices[i].id_device
                                \in DOMAIN error_map
                           THEN error_map[smarthome.devices[i].id_device]
                           ELSE <<>>]]]

\* The loop of parse_state, lines 476-486, over the summaries.
RECURSIVE ParseHomes(_, _, _)
ParseHomes(summaries, smarthome_payloads, smarthome_error_payloads) ==
    IF summaries = <<>> THEN <<>>
    ELSE LET id == Head(summaries).smarthome_id
             rest == ParseHomes(Tail(summaries), smarthome_payloads,
                                smarthome_error_payloads)
             smarthome == parse_smarthome(smarthome_payloads[id], id)
         IN IF id \notin DOMAIN smarthome_payloads THEN rest
            ELSE IF id \in DOMAIN smarthome_error_payloads
            THEN <<with_error_map(
                       smarthome,
                       parse_smarthome_errors(smarthome_error_payloads[id]))>>
                 \o rest
            ELSE <<smarthome>> \o rest

\* parse_state with smarthome_payloads[...] in place of .get(...): a
\* listed smarthome without a detail payload raises KeyError.
parse_state_Indexing(user_payload, smarthome_payloads, smarthome_error_payloads) ==
    LET user == parse_user_profile(user_payload.smarthomes)
    IN IF \E i \in 1..Len(user) :
              user[i].smarthome_id \notin DOMAIN smarthome_payloads
       THEN [raised |-> "KeyError", user |-> <<>>, smarthomes |-> <<>>]
       ELSE [raised |-> "", user |-> user,
             smarthomes |-> ParseHomes(user, smarthome_payloads,
                                       smarthome_error_payloads)]

\* parse_state, lines 467-488: the WattsState, and the exception raised
\* ("" for none).
parse_state(user_payload, smarthome_payloads, smarthome_error_payloads) ==
    LET user == parse_user_profile(user_payload.smarthomes)
    IN [raised |-> "", user |-> user,
        smarthomes |-> ParseHomes(user, smarthome_payloads,
                                  smarthome_error_payloads)]

\* ------------------------------------------------------- write requests
\* Python's round(num / den) of a fraction with den > 0: to the nearest
\* integer, a tie to the even one.
RoundHalfEven(num, den) ==
    LET q == num \div den
        r == num % den
    IN IF 2 * r > den \/ (2 * r = den /\ q % 2 = 1) THEN q + 1 ELSE q

\* A temperature in Celsius is a number of tenths of a degree.
TENTHS == 10

\* const.py has no RAW_TEMPERATURE_FACTOR, the name models.py imports
\* (line 16); its deci scale RAW_TEMPERATURE_DECI_SCALE is 10.0.
RAW_TEMPERATURE_FACTOR == 10

\* celsius_to_raw, lines 55-57: int(round(temperature * factor)).
celsius_to_raw(temperature) ==
    RoundHalfEven(temperature * RAW_TEMPERATURE_FACTOR, TENTHS)

\* The mode options, const.py lines 36-43. An option is a string of tokens:
\* a known option is one token, an unknown one "unknown", "_" and the
\* characters of the code.
MODE_COMFORT == <<"comfort">>
MODE_OFF == <<"off">>
MODE_ANTI_FROST == <<"anti_frost">>
MODE_ECO == <<"eco">>
MODE_BOOST == <<"boost">>
MODE_PROGRAM_ON == <<"program_on">>
MODE_MANUAL == <<"manual">>
MODE_UNKNOWN == <<"unknown">>

\* const.py lines 45-53.
MODE_CODE_TO_OPTION ==
    DictOf(<<<<<<"0">>, MODE_COMFORT>>,
             <<<<"1">>, MODE_OFF>>,
             <<<<"2">>, MODE_ANTI_FROST>>,
             <<<<"3">>, MODE_ECO>>,
             <<<<"4">>, MODE_BOOST>>,
             <<<<"8">>, MODE_PROGRAM_ON>>,
             <<<<"1", "1">>, MODE_MANUAL>>>>)

\* const.py line 55: the inverse dict.
MODE_OPTION_TO_CODE ==
    [option \in {MODE_CODE_TO_OPTION[c] : c \in DOMAIN MODE_CODE_TO_OPTION} |->
        CHOOSE c \in DOMAIN MODE_CODE_TO_OPTION : MODE_CODE_TO_OPTION[c] = option]

\* const.py lines 80-85.
SETPOINT_BY_MODE ==
    DictOf(<<<<MODE_COMFORT, SETPOINT_COMFORT>>,
             <<MODE_ECO, SETPOINT_ECO>>,
             <<MODE_ANTI_FROST, SETPOINT_ANTI_FROST>>,
             <<MODE_BOOST, SETPOINT_BOOST>>>>)

\* mode_from_code, lines 561-566.
mode_from_code(mode_code) ==
    IF mode_code \in DOMAIN MODE_CODE_TO_OPTION
    THEN MODE_CODE_TO_OPTION[mode_code]
    ELSE MODE_UNKNOWN \o <<"_">> \o mode_code

\* get_current_mode_code, lines 556-558: the code, or None (<<>>).
get_current_mode_code(mode_option) ==
    IF mode_option \in DOMAIN MODE_OPTION_TO_CODE
    THEN <<MODE_OPTION_TO_CODE[mode_option]>>
    ELSE <<>>

\* WattsDevice.current_mode, lines 158-164.
current_mode(device) ==
    IF device.gv_mode \in DOMAIN MODE_CODE_TO_OPTION
    THEN MODE_CODE_TO_OPTION[device.gv_mode]
    ELSE MODE_UNKNOWN \o <<"_">> \o device.gv_mode

\* WattsDevice.get_setpoint_raw, lines 191-196: None (<<>>) or <<str(raw)>>.
get_setpoint_raw(device, key) ==
    IF key \in DOMAIN device.setpoints_raw
    THEN <<StrOfInt(device.setpoints_raw[key])>>
    ELSE <<>>

\* WattsDevice.base_query, lines 198-219: a new dict.
base_query(device) ==
    LET known == {k \in Range(SETPOINT_AND_MANUAL_KEYS) :
                     get_setpoint_raw(device, k) # <<>>}
        query == [k \in {"id_device", "gv_mode", "nv_mode", BOOST_TIMER}
                          \cup known |->
                    CASE k = "id_device" -> device.id_device
                      [] k = "gv_mode" -> device.gv_mode
                      [] k = "nv_mode" -> device.nv_mode
                      [] k = BOOST_TIMER -> StrOfInt(device.time_boost_seconds)
                      [] OTHER -> get_setpoint_raw(device, k)[1]]
        fallback_value ==
            IF current_mode(device) \in DOMAIN SETPOINT_BY_MODE
            THEN get_setpoint_raw(device, SETPOINT_BY_MODE[current_mode(device)])
            ELSE <<>>
    IN IF SETPOINT_MANUAL \notin DOMAIN query /\ fallback_value # <<>>
       THEN Put(query, SETPOINT_MANUAL, fallback_value[1])
       ELSE query

\* What a builder returns: a WattsWriteRequest, or the exception it raises
\* and no request.
WattsWriteRequest(device, query) ==
    [raised |-> "",
     request |-> <<[smarthome_id |-> device.smarthome_id,
                    id_device |-> device.id_device,
                    query |-> query]>>]
RaisesValueError == [raised |-> "ValueError", request |-> <<>>]

\* The timer that line 512 writes.
DEFAULT_BOOST_TIMER == <<"3", "6", "0", "0">>

\* build_mode_write_request without lines 507-510: the setpoint of the
\* mode is not copied into the query.
build_mode_write_request_NoMirror(device, selected_mode) ==
    IF selected_mode \notin DOMAIN MODE_OPTION_TO_CODE THEN RaisesValueError
    ELSE LET mode_code == MODE_OPTION_TO_CODE[selected_mode]
         IN WattsWriteRequest(device,
                Put(Put(base_query(device), "gv_mode", mode_code),
                    "nv_mode", mode_code))
\* build_mode_write_request, lines 491-515.
build_mode_write_request(device, selected_mode) ==
    IF selected_mode \notin DOMAIN MODE_OPTION_TO_CODE THEN RaisesValueError
    ELSE LET mode_code == MODE_OPTION_TO_CODE[selected_mode]
             coded == Put(Put(base_query(device), "gv_mode", mode_code),
                          "nv_mode", mode_code)
             mode_setpoint_raw ==
                 IF selected_mode \in DOMAIN SETPOINT_BY_MODE
                 THEN get_setpoint_raw(device, SETPOINT_BY_MODE[selected_mode])
                 ELSE <<>>
             mirrored ==
                 IF mode_setpoint_raw # <<>>
                 THEN Put(Put(coded, SETPOINT_BY_MODE[selected_mode],
                              mode_setpoint_raw[1]),
                          SETPOINT_MANUAL, mode_setpoint_raw[1])
                 ELSE coded
             query ==
                 IF selected_mode = MODE_BOOST
                       /\ BOOST_TIMER \notin DOMAIN mirrored
                 THEN Put(mirrored, BOOST_TIMER, DEFAULT_BOOST_TIMER)
                 ELSE mirrored
         IN WattsWriteRequest(device, query)

\* build_setpoint_write_request that writes the manual field whatever the
\* current mode is.
build_setpoint_write_request_AlwaysManual(device, setpoint_key, value_celsius) ==
    IF setpoint_key \notin Range(SETPOINT_KEYS) THEN RaisesValueError
    ELSE LET raw_value == StrOfInt(celsius_to_raw(value_celsius))
         IN WattsWriteRequest(device,
                Put(Put(base_query(device), setpoint_key, raw_value),
                    SETPOINT_MANUAL, raw_value))
\* build_setpoint_write_request, lines 518-536.
build_setpoint_write_request(device, setpoint_key, value_celsius) ==
    IF setpoint_key \notin Range(SETPOINT_KEYS) THEN RaisesValueError
    ELSE LET raw_value == StrOfInt(celsius_to_raw(value_celsius))
             keyed == Put(base_query(device), setpoint_key, raw_value)
             active == /\ current_mode(device) \in DOMAIN SETPOINT_BY_MODE
                       /\ SETPOINT_BY_MODE[current_mode(device)] = setpoint_key
         IN WattsWriteRequest(device,
                IF active THEN Put(keyed, SETPOINT_MANUAL, raw_value)
                ELSE keyed)

\* build_boost_timer_write_request without max(0, ...).
build_boost_timer_write_request_NoClamp(device, value_seconds) ==
    WattsWriteRequest(device,
        Put(base_query(device), BOOST_TIMER, StrOfInt(value_seconds)))
\* build_boost_timer_write_request, lines 539-548.
build_boost_timer_write_request(device, value_seconds) ==
    WattsWriteRequest(device,
        Put(base_query(device), BOOST_TIMER, StrOfInt(Max(0, value_seconds))))

\* --------------------------------------------------------- formatting.py
\* Lines 8-9; a raw value is a number of tenths of a degree Fahrenheit.
WATTS_TEMPERATURE_FACTOR == 10
WATTS_INVALID_FAHRENHEIT_THRESHOLD == 99

\* The Fahrenheit scale of lines 59 and 66: 1.8 is 18 / 10.
FAHRENHEIT_OFFSET == 32
FAHRENHEIT_PER_TEN_CELSIUS == 18

\* MODE_LABELS, lines 11-22, in the order of the dict; a known label is one
\* token.
MODE_LABELS ==
    <<<<<<"0">>, <<"Comfort">>>>,
      <<<<"1">>, <<"Off">>>>,
      <<<<"2">>, <<"Frost Protection">>>>,
      <<<<"3">>, <<"Eco">>>>,
      <<<<"4">>, <<"Boost">>>>,
      <<<<"8">>, <<"Auto Comfort">>>>,
      <<<<"1", "1">>, <<"Auto Eco">>>>,
      <<<<"1", "2">>, <<"On">>>>,
      <<<<"1", "3">>, <<"Auto">>>>,
      <<<<"1", "4">>, <<"Disabled">>>>>>

\* format_mode, lines 70-75: None (<<>>) or <<label>>; the label of an
\* unknown code is "Mode", a blank and the characters of the code.
format_mode(value) ==
    IF value \in {NoneV, Str(<<>>)} THEN <<>>
    ELSE IF \E i \in 1..Len(MODE_LABELS) : MODE_LABELS[i][1] = value.s
    THEN <<DictOf(MODE_LABELS)[value.s]>>
    ELSE <<<<"Mode", " ">> \o value.s>>

\* mode_code_from_label, lines 78-83: the first code that has the label, or
\* None (<<>>).
mode_code_from_label(label) ==
    LET hits == {i \in 1..Len(MODE_LABELS) : MODE_LABELS[i][2] = label}
    IN IF hits = {} THEN <<>>
       ELSE <<MODE_LABELS[CHOOSE i \in hits : \A j \in hits : i <= j][1]>>

\* A Python float: a finite number n, nan, inf or -inf; and what float(...)
\* or a function that returns a float raises ("" for nothing). None is the
\* kind "none".
Finite(n) == [raised |-> "", kind |-> "finite", n |-> n]
NotFinite(kind) == [raised |-> "", kind |-> kind, n |-> 0]
NoFloat == NotFinite("none")
RaisesFloat(error) == [raised |-> error, kind |-> "none", n |-> 0]

\* An int, by the digits of str(int).
IntV(digits) == [t |-> "int", s |-> digits, l |-> <<>>]

\* The largest floats have 309 digits: int -> float of a longer int raises
\* OverflowError.
FLOAT_MAX_DIGITS == 309

\* float(value), line 31, of an int, of None, a list or a dict (TypeError),
\* and of a string: an integer text with blanks around it, "nan", "inf",
\* "-inf", or a text that is no number (ValueError).
float(value) ==
    IF value.t = "int"
    THEN IF Len(Unsigned(value.s)) > FLOAT_MAX_DIGITS
         THEN RaisesFloat("OverflowError")
         ELSE IF Head(value.s) = "-" THEN Finite(0 - NatOf(Unsigned(value.s)))
         ELSE Finite(NatOf(value.s))
    ELSE IF value.t # "str" THEN RaisesFloat("TypeError")
    ELSE LET text == Strip(value.s)
         IN IF text = <<"n", "a", "n">> THEN NotFinite("nan")
            ELSE IF text = <<"i", "n", "f">> THEN NotFinite("inf")
            ELSE IF text = <<"-", "i", "n", "f">> THEN NotFinite("-inf")
            ELSE IF ~IsFloatText(text) \/ FractionPart(Unsigned(text)) # <<>>
            THEN RaisesFloat("ValueError")
            ELSE IF Head(text) = "-" THEN Finite(0 - NatOf(Unsigned(text)))
            ELSE Finite(NatOf(text))

\* _to_float, lines 26-33: None for None and "", and for what makes float
\* raise TypeError or ValueError; any other exception is not caught.
_to_float(value) ==
    IF value \in {NoneV, Str(<<>>)} THEN NoFloat
    ELSE IF float(value).raised \in {"TypeError", "ValueError"} THEN NoFloat
    ELSE float(value)

\* encode_setpoint, lines 64-67, of a temperature in tenths of a degree:
\* (value * 1.8 + 32.0) * 10.0, rounded.
encode_setpoint(value) ==
    StrOfInt(RoundHalfEven(
        (value * FAHRENHEIT_PER_TEN_CELSIUS
           + FAHRENHEIT_OFFSET * TENTHS * TENTHS) * WATTS_TEMPERATURE_FACTOR,
        TENTHS * TENTHS))

\* Lines 40-47 and 54-61, the same in both decoders, of the float that
\* _to_float returned: None above the threshold (inf is above it, nan and
\* -inf are not), else (raw / 10.0 - 32.0) / 1.8 rounded to one decimal, in
\* tenths of a degree; round(x, 1) of nan or -inf is x.
DecodeRaw(raw_value) ==
    IF raw_value.raised # "" THEN raw_value
    ELSE IF raw_value.kind \in {"none", "inf"} THEN NoFloat
    ELSE IF raw_value.kind # "finite" THEN raw_value
    ELSE IF raw_value.n
              > WATTS_INVALID_FAHRENHEIT_THRESHOLD * WATTS_TEMPERATURE_FACTOR
    THEN NoFloat
    ELSE Finite(RoundHalfEven(
             (raw_value.n - FAHRENHEIT_OFFSET * WATTS_TEMPERATURE_FACTOR)
                * TENTHS * TENTHS,
             FAHRENHEIT_PER_TEN_CELSIUS * WATTS_TEMPERATURE_FACTOR))

\* decode_temperature, lines 36-47.
decode_temperature(value) == DecodeRaw(_to_float(value))

\* decode_setpoint that cuts the second decimal off instead of rounding.
decode_setpoint_Truncating(value) ==
    LET raw_value == _to_float(value)
    IN IF raw_value.kind # "finite" THEN DecodeRaw(raw_value)
       ELSE IF raw_value.n
                 > WATTS_INVALID_FAHRENHEIT_THRESHOLD * WATTS_TEMPERATURE_FACTOR
       THEN NoFloat
       ELSE Finite(((raw_value.n - FAHRENHEIT_OFFSET * WATTS_TEMPERATURE_FACTOR)
                       * TENTHS * TENTHS)
                    \div (FAHRENHEIT_PER_TEN_CELSIUS * WATTS_TEMPERATURE_FACTOR))
\* decode_setpoint, lines 50-61.
decode_setpoint(value) == DecodeRaw(_to_float(value))

\* ------------------------------------------------------------ program.py
\* A value of a service payload: None, a string (a sequence of tokens), a
\* list of values, or a dict, which is the sequence of its <<key, value>>
\* items in insertion order. A key of the payload is a string; a key of a
\* block is one token.
PNone == [t |-> "none", s |-> <<>>, items |-> <<>>]
PStr(tokens) == [t |-> "str", s |-> tokens, items |-> <<>>]
PList(values) == [t |-> "list", s |-> <<>>, items |-> values]
PDict(pairs) == [t |-> "dict", s |-> <<>>, items |-> pairs]

\* dict.get(key, default) and `key in dict` on the items of a dict.
HasKey(pairs, key) == \E i \in 1..Len(pairs) : pairs[i][1] = key
ItemOf(pairs, key, default) ==
    IF HasKey(pairs, key)
    THEN pairs[CHOOSE i \in 1..Len(pairs) : pairs[i][1] = key][2]
    ELSE default

\* The dict of a sequence of items, as a function of its keys.
AsDict(pairs) ==
    [k \in {pairs[i][1] : i \in 1..Len(pairs)} |-> ItemOf(pairs, k, PNone)]

\* DAY_ALIASES, lines 6-21.
DAY_ALIASES ==
    DictOf(<<<<"monday", "monday">>, <<"mon", "monday">>,
             <<"tuesday", "tuesday">>, <<"tue", "tuesday">>,
             <<"wednesday", "wednesday">>, <<"wed", "wednesday">>,
             <<"thursday", "thursday">>, <<"thu", "thursday">>,
             <<"friday", "friday">>, <<"fri", "friday">>,
             <<"saturday", "saturday">>, <<"sat", "saturday">>,
             <<"sunday", "sunday">>, <<"sun", "sunday">>>>)

\* str.lower() of a word: the words with capitals that the payloads use.
CAPITALIZED == DictOf(<<<<"Mon", "mon">>, <<"TUESDAY", "tuesday">>>>)
Lower(tokens) ==
    [i \in 1..Len(tokens) |->
        IF tokens[i] \in DOMAIN CAPITALIZED THEN CAPITALIZED[tokens[i]]
        ELSE tokens[i]]

\* _normalize_day, lines 24-26.
_normalize_day(day) ==
    LET word == Lower(Strip(day))
    IN IF Len(word) = 1 /\ word[1] \in DOMAIN DAY_ALIASES
       THEN <<DAY_ALIASES[word[1]]>>
       ELSE word

\* f"program[{day}][{index}][{field}]", lines 77-79.
FlatKey(day, index, field) ==
    <<"program[">> \o day \o <<"][">> \o StrOfNat(index)
        \o <<"][", field, "]">>

\* Line 47: the key starts with "program[".
IsFlatKey(key) == key # <<>> /\ Head(key) = "program["

\* Line 74: x in (None, "").
NoneOrEmpty(x) == x \in {PNone, PStr(<<>>)}

\* Line 73: block.get("value", block.get("mode")).
BlockValue(block) ==
    ItemOf(block.items, "value", ItemOf(block.items, "mode", PNone))

\* Lines 68-79 for the block at position index (from 0) of a day.
FlattenBlock(normalized, day, index, block) ==
    LET start == ItemOf(block.items, "start", PNone)
        end == ItemOf(block.items, "end", PNone)
        value == BlockValue(block)
    IN IF block.t # "dict" THEN normalized
       ELSE IF NoneOrEmpty(start) \/ NoneOrEmpty(end) \/ NoneOrEmpty(value)
       THEN normalized
       ELSE Put(Put(Put(normalized, FlatKey(day, index, "start"),
                        PStr(start.s)),
                    FlatKey(day, index, "end"), PStr(end.s)),
                FlatKey(day, index, "value"), PStr(value.s))

\* Lines 67-79: the blocks of one day from position index on.
RECURSIVE FlattenBlocks(_, _, _, _)
FlattenBlocks(normalized, day, index, blocks) ==
    IF blocks = <<>> THEN normalized
    ELSE FlattenBlocks(FlattenBlock(normalized, day, index, Head(blocks)),
                       day, index + 1, Tail(blocks))

\* FlattenDays that keeps what an earlier key of the same day has written.
RECURSIVE FlattenDays_FirstKeyWins(_, _)
FlattenDays_FirstKeyWins(normalized, source) ==
    IF source = <<>> THEN normalized
    ELSE LET blocks == Head(source)[2]
             flat == FlattenBlocks(normalized, _normalize_day(Head(source)[1]),
                                   0, blocks.items)
             kept == [k \in DOMAIN flat |->
                         IF k \in DOMAIN normalized THEN normalized[k]
                         ELSE flat[k]]
         IN FlattenDays_FirstKeyWins(
                IF blocks.t # "list" THEN normalized ELSE kept, Tail(source))
\* Lines 62-79: the items of the source, in the order of the dict.
RECURSIVE FlattenDays(_, _)
FlattenDays(normalized, source) ==
    IF source = <<>> THEN normalized
    ELSE LET blocks == Head(source)[2]
         IN FlattenDays(
                IF blocks.t # "list" THEN normalized
                ELSE FlattenBlocks(normalized,
                                   _normalize_day(Head(source)[1]), 0,
                                   blocks.items),
                Tail(source))

\* normalize_program_data, lines 29-81, of the items of program_data.
normalize_program_data(program_data) ==
    LET source == ItemOf(program_data, <<"program">>, PDict(program_data))
        passthrough ==
            SelectSeq(program_data, LAMBDA item : item[1] # <<"program">>)
    IN IF \E i \in 1..Len(program_data) : IsFlatKey(program_data[i][1])
       THEN AsDict(program_data)
       ELSE IF source.t # "dict" THEN AsDict(program_data)
       ELSE FlattenDays(AsDict(passthrough), source.items)

\* ============================================================ __init__.py
\* The config entries of the integration, and how often one entry is set up
\* (a reload is an unload followed by a setup).
Entries == {"e1", "e2"}
MaxSetups == 2

\* The services of lines 270-307.
SERVICES ==
    {"apply_program", "set_weekly_program", "set_day_program",
     "convert_program", "update_now"}

\* An entry that has not been set up: no call of async_setup_entry runs.
NotSetUp == [pc |-> "not_loaded", n |-> 0, result |-> ""]

\* hass before any setup: hass.data[DOMAIN] is empty, no service is
\* registered.
NoHass ==
    [data |-> EmptyDict, services |-> EmptyDict,
     setup |-> [e \in Entries |-> NotSetUp]]

\* dict.pop(key).
Pop(d, k) == [x \in DOMAIN d \ {k} |-> d[x]]

\* The WattsApiClient and the WattsCoordinator that the running (or last)
\* setup of the entry has created (lines 148-152 and 165-169).
Instance(e) == [entry |-> e, n |-> hass.setup[e].n]

\* async_setup_entry is called for an entry (lines 146-156): the client is
\* created and async_login awaited.
StartSetup(e) ==
    /\ hass.setup[e].pc = "not_loaded"
    /\ hass.setup[e].n < MaxSetups
    /\ hass' = [hass EXCEPT !.setup[e] =
                   [pc |-> "login", n |-> hass.setup[e].n + 1, result |-> ""]]
    /\ UNCHANGED <<write, poll, apiVars, coordVars, fnVars>>

\* The handler of lines 157-158: `except WattsApiError` turns a WattsApiError
\* into ConfigEntryNotReady; WattsAuthError and WattsConnectionError are not
\* subclasses of WattsApiError (api.py 31-44) and leave the setup as they are.
SetupRaises(err) == IF err = "ApiError" THEN "ConfigEntryNotReady" ELSE err

\* async_login comes back to the setup (lines 154-172): a failure leaves
\* async_setup_entry, a success creates the coordinator, whose first refresh
\* is awaited.
SetupLoginDone(e, resp) ==
    /\ hass.setup[e].pc = "login"
    /\ hass' = [hass EXCEPT !.setup[e] =
                   IF LoginResult(resp) = "ok"
                   THEN [@ EXCEPT !.pc = "first_refresh"]
                   ELSE [@ EXCEPT !.pc = "not_loaded",
                                  !.result = SetupRaises(LoginResult(resp))]]
    /\ UNCHANGED <<write, poll, apiVars, coordVars, fnVars>>

\* async_config_entry_first_refresh comes back (lines 172-181): it raises
\* ConfigEntryNotReady when the refresh failed; otherwise the coordinator
\* and the client are stored under the entry id and the platforms are
\* forwarded.
SetupFirstRefreshDone(e, ok) ==
    /\ hass.setup[e].pc = "first_refresh"
    /\ hass' = IF ok
               THEN [hass EXCEPT !.data = Put(hass.data, e, Instance(e)),
                                 !.setup[e].pc = "forward"]
               ELSE [hass EXCEPT !.setup[e].pc = "not_loaded",
                                 !.setup[e].result = "ConfigEntryNotReady"]
    /\ UNCHANGED <<write, poll, apiVars, coordVars, fnVars>>

\* async_forward_entry_setups comes back (lines 183-312): the handlers
\* close over the coordinator and the client of this setup, and each
\* service that is not registered yet is registered with its handler.
SetupForwarded(e) ==
    /\ hass.setup[e].pc = "forward"
    /\ hass' = [hass EXCEPT
                   !.services = [s \in SERVICES |->
                                    IF s \in DOMAIN hass.services
                                    THEN hass.services[s] ELSE Instance(e)],
                   !.setup[e].pc = "loaded",
                   !.setup[e].result = "True"]
    /\ UNCHANGED <<write, poll, apiVars, coordVars, fnVars>>

\* async_unload_entry of a loaded entry (lines 320-338), after
\* async_unload_platforms came back with unload_ok.
async_unload_entry(e, unload_ok) ==
    /\ hass.setup[e].pc = "loaded"
    /\ LET left == IF unload_ok THEN Pop(hass.data, e) ELSE hass.data
       IN hass' = [hass EXCEPT
                      !.data = left,
                      !.services = IF DOMAIN left = {} THEN EmptyDict
                                   ELSE hass.services,
                      !.setup[e].pc = IF unload_ok THEN "not_loaded"
                                      ELSE "loaded",
                      !.setup[e].result = IF unload_ok THEN "" ELSE "True"]
    /\ UNCHANGED <<write, poll, apiVars, coordVars, fnVars>>

NextHass ==
    \/ \E e \in Entries : StartSetup(e)
    \/ \E e \in Entries, resp \in LoginResponses : SetupLoginDone(e, resp)
    \/ \E e \in Entries, ok \in BOOLEAN : SetupFirstRefreshDone(e, ok)
    \/ \E e \in Entries : SetupForwarded(e)
    \/ \E e \in Entries, unload_ok \in BOOLEAN : async_unload_entry(e, unload_ok)

\* ------------------------------------------------------- entity writes
\* get_device_data of the coordinator, lines 278-297, over the published
\* data d; <<>> is None, <<device>> a device. device_id is the string of
\* the id.
get_device_data(d, smarthome_id, device_id) ==
    LET smarthome_data == get_smarthome_data(d, smarthome_id)
        normalized == IF _resolve_device_id(device_id) # <<>>
                      THEN _resolve_device_id(device_id) ELSE device_id
        devices == get_smarthome_devices(d, smarthome_id)
        found == {i \in 1..Len(devices) :
                    _device_id_from_payload(devices[i])
                       = _resolve_device_id(device_id)}
    IN IF smarthome_data = <<>> THEN <<>>
       ELSE IF normalized \in DOMAIN smarthome_data[1].devices_by_id
       THEN <<smarthome_data[1].devices_by_id[normalized]>>
       ELSE IF found # {}
       THEN <<devices[CHOOSE i \in found : \A j \in found : i <= j]>>
       ELSE <<>>

\* The write methods of the entities: async_select_option of select.py
\* (the mode), async_set_native_value of number.py for a temperature field
\* (a setpoint) and for time_boost (the boost timer).
WriteKinds == {"mode", "setpoint", "boost_timer"}

\* No write is running. pushed is how async_push_query ended ("" while it
\* has not), result how the write method ended: "returned", or the
\* exception that left it.
IdleWrite ==
    [pc |-> "idle", kind |-> "", smarthome_id |-> "", device_id |-> <<>>,
     known |-> FALSE, before |-> NoData, pushes |-> 0, pushed |-> "",
     refresh_requests |-> 0, logged |-> FALSE, result |-> ""]

\* A write method is called on the entity of a device (select.py 136-163,
\* number.py 216-233): an option that is no mode label is logged and the
\* method returns; otherwise the query is built from the fields of the
\* entity and async_push_query is awaited. known tells whether the snapshot
\* has the device; the method does not ask.
StartWrite(kind, smarthome_id, device_id, valid) ==
    /\ write.pc \in {"idle", "done"}
    /\ write' =
          IF kind = "mode" /\ ~valid
          THEN [IdleWrite EXCEPT
                   !.pc = "done", !.kind = kind,
                   !.smarthome_id = smarthome_id, !.device_id = device_id,
                   !.known = get_device_data(data, smarthome_id, device_id)
                                # <<>>,
                   !.before = data, !.logged = TRUE, !.result = "returned"]
          ELSE [IdleWrite EXCEPT
                   !.pc = "push", !.kind = kind,
                   !.smarthome_id = smarthome_id, !.device_id = device_id,
                   !.known = get_device_data(data, smarthome_id, device_id)
                                # <<>>,
                   !.before = data, !.pushes = 1]
    /\ UNCHANGED <<hass, poll, apiVars, coordVars, fnVars>>

\* The handler of the write methods (select.py 166-167, number.py 236-242,
\* climate.py 269, 297, 320): `except WattsApiError`, which logs the error.
WriteCatches(err) == err = "ApiError"

\* PushDone that requests the refresh however the push ended.
PushDone_RefreshAlways(result) ==
    /\ write.pc = "push"
    /\ write' = [write EXCEPT
                    !.pushed = result,
                    !.refresh_requests = @ + 1,
                    !.pc = IF result = "ok" THEN "refresh" ELSE "done",
                    !.logged = WriteCatches(result),
                    !.result = IF result = "ok" THEN ""
                               ELSE IF WriteCatches(result) THEN "returned"
                               ELSE result]
    /\ UNCHANGED <<hass, poll, apiVars, coordVars, fnVars>>
\* async_push_query comes back (select.py 159-167, number.py 229-242):
\* after a success async_request_refresh is awaited; a WattsApiError is
\* logged and the method returns; WattsAuthError and WattsConnectionError
\* leave the method.
PushDone(result) ==
    /\ write.pc = "push"
    /\ write' = IF result = "ok"
                THEN [write EXCEPT !.pushed = result, !.pc = "refresh",
                                   !.refresh_requests = @ + 1]
                ELSE IF WriteCatches(result)
                THEN [write EXCEPT !.pushed = result, !.pc = "done",
                                   !.logged = TRUE, !.result = "returned"]
                ELSE [write EXCEPT !.pushed = result, !.pc = "done",
                                   !.result = result]
    /\ UNCHANGED <<hass, poll, apiVars, coordVars, fnVars>>

\* async_request_refresh comes back and the write method returns
\* (select.py 164, number.py 234).
RefreshRequested ==
    /\ write.pc = "refresh"
    /\ write' = [write EXCEPT !.pc = "done", !.result = "returned"]
    /\ UNCHANGED <<hass, poll, apiVars, coordVars, fnVars>>

\* ----------------------------------------------------- fast-poll window
\* The coordinator's write methods and its polling interval. const.py
\* declares the two constants; the coordinator that uses them is not part
\* of the sources, so the methods follow the description of the
\* coordinator's adaptive polling.
POST_WRITE_FAST_POLL_INTERVAL_SECONDS == 15
\* 5 * 60 seconds.
POST_WRITE_FAST_POLL_DURATION_SECONDS == 300

\* The clock of the coordinator runs to MaxClock seconds, in the steps of
\* ClockSteps.
MaxClock == 600
ClockSteps == {150, 299, 300}

\* The polling intervals a user may configure.
NormalIntervals == {10, 15, 60}

\* No write has run: the window is not armed (armed_at = -1).
IdlePoll ==
    [pc |-> "idle", op |-> "", normal |-> 60, clock |-> 0, fast_until |-> 0,
     armed_at |-> -1, pushes |-> 0, refresh_requests |-> 0, result |-> ""]

\* The faster interval: the normal one, or the fixed one if that is shorter.
fast_interval(normal) ==
    IF normal < POST_WRITE_FAST_POLL_INTERVAL_SECONDS THEN normal
    ELSE POST_WRITE_FAST_POLL_INTERVAL_SECONDS

\* The effective polling interval of the coordinator p.
update_interval(p) ==
    IF p.clock < p.fast_until THEN fast_interval(p.normal) ELSE p.normal

\* setMode, setSetpoint or setBoostTimer is called: the device is resolved
\* from the cached snapshot; an unknown id fails with a lookup error and
\* no network call, otherwise the request is built and pushed.
CoordinatorWrite(op, smarthome_id, id_device) ==
    /\ poll.pc \in {"idle", "done"}
    /\ poll' = IF get_device_data(data, smarthome_id, id_device) = <<>>
               THEN [poll EXCEPT !.pc = "done", !.op = op, !.pushes = 0,
                                 !.refresh_requests = 0,
                                 !.result = "LookupError"]
               ELSE [poll EXCEPT !.pc = "push", !.op = op, !.pushes = 1,
                                 !.refresh_requests = 0, !.result = ""]
    /\ UNCHANGED <<hass, write, apiVars, coordVars, fnVars>>

\* WritePushed that arms the window however the push ended.
WritePushed_ArmsAlways(result) ==
    /\ poll.pc = "push"
    /\ poll' = [poll EXCEPT
                   !.pc = "done", !.result = result,
                   !.fast_until =
                       poll.clock + POST_WRITE_FAST_POLL_DURATION_SECONDS,
                   !.armed_at = IF result = "ok" THEN poll.clock ELSE @,
                   !.refresh_requests = IF result = "ok" THEN 1 ELSE 0]
    /\ UNCHANGED <<hass, write, apiVars, coordVars, fnVars>>
\* The push of a write comes back: after a success the window is armed
\* and a refresh is triggered; an error reaches the caller and arms
\* nothing.
WritePushed(result) ==
    /\ poll.pc = "push"
    /\ poll' = IF result = "ok"
               THEN [poll EXCEPT
                        !.pc = "done", !.result = "ok",
                        !.fast_until =
                            poll.clock + POST_WRITE_FAST_POLL_DURATION_SECONDS,
                        !.armed_at = poll.clock,
                        !.refresh_requests = 1]
               ELSE [poll EXCEPT !.pc = "done", !.result = result]
    /\ UNCHANGED <<hass, write, apiVars, coordVars, fnVars>>

\* The clock advances.
AdvanceClock(seconds) ==
    /\ poll.clock + seconds <= MaxClock
    /\ poll' = [poll EXCEPT !.clock = @ + seconds]
    /\ UNCHANGED <<hass, write, apiVars, coordVars, fnVars>>

InitHass ==
    /\ hass = NoHass
    /\ write = IdleWrite
    /\ poll = IdlePoll

\* The snapshots an entity may find: SH1 with its devices D1 and D2, SH1
\* after a refresh that found no device, SH1 after a refresh whose detail
\* fetch failed, and no snapshot.
WriteSnapshots ==
    {NoData}
    \cup {[present |-> TRUE, user |-> UserData(<<"SH1">>),
           smarthomes |-> Put(EmptyDict, "SH1", entry)] :
            entry \in {FullEntry(Summary("SH1"), ZonedDetails("SH1"),
                                 NoErrors, NoDataDict, NoDataDict, NoStats),
                       FullEntry(Summary("SH1"), NoDetails, NoErrors,
                                 NoDataDict, NoDataDict, NoStats),
                       ErrorEntry(Summary("SH1"), "ApiError")}}

\* The devices that have an entity: D1 of SH1, and D1 of a smarthome SH2
\* that the account has lost.
WriteTargets == {<<"SH1", <<"D1">>>>, <<"SH2", <<"D1">>>>}

InitWrite ==
    /\ InitApi
    /\ InitFn
    /\ InitHass
    /\ data \in WriteSnapshots
    /\ _smarthomes = data.user.smarthomes
    /\ refresh = IdleRefresh
    /\ last = NoOutcome
    /\ pre = [data |-> NoData, smarthomes |-> <<>>]

NextWrite ==
    \/ \E kind \in WriteKinds, target \in WriteTargets, valid \in BOOLEAN :
          StartWrite(kind, target[1], target[2], valid)
    \/ \E result \in CallResults : PushDone(result)
    \/ RefreshRequested

InitFastPoll ==
    /\ InitApi
    /\ InitFn
    /\ hass = NoHass
    /\ write = IdleWrite
    /\ poll \in {[IdlePoll EXCEPT !.normal = n] : n \in NormalIntervals}
    /\ data \in WriteSnapshots
    /\ _smarthomes = data.user.smarthomes
    /\ refresh = IdleRefresh
    /\ last = NoOutcome
    /\ pre = [data |-> NoData, smarthomes |-> <<>>]

NextFastPoll ==
    \/ \E op \in {"setMode", "setSetpoint", "setBoostTimer"},
          target \in WriteTargets :
          CoordinatorWrite(op, target[1], target[2])
    \/ \E result \in CallResults : WritePushed(result)
    \/ \E seconds \in ClockSteps : AdvanceClock(seconds)

\* ------------------------------------------------------- parser inputs
\* A string of single characters.
Chars(text) == Str(text)

\* Raw devices of smarthome sh: D1 as the flat list has it, D1 as a zone
\* has it (another name and mode, an empty bundle), D2 (in a zone only,
\* its name blank), and a device that has a composite id but no id_device.
FlatD1(sh) ==
    DictOf(<<<<"id_device", Str(<<"D1">>)>>,
             <<"id", Str(<<sh, "#", "D1">>)>>,
             <<"nom_appareil", Str(<<"a">>)>>,
             <<"gv_mode", Chars(<<"0">>)>>,
             <<"bundle_id", Str(<<"B">>)>>,
             <<SETPOINT_COMFORT, Chars(<<"6", "2", "4">>)>>>>)
ZoneD1 ==
    DictOf(<<<<"id_device", Str(<<"D1">>)>>,
             <<"nom_appareil", Str(<<"b">>)>>,
             <<"gv_mode", Chars(<<"3">>)>>,
             <<"bundle_id", Str(<<>>)>>>>)
ZoneD2 ==
    DictOf(<<<<"id_device", Str(<<"D2">>)>>,
             <<"nom_appareil", Str(<<" ">>)>>,
             <<BOOST_TIMER, Chars(<<"1", "8", "0", "0">>)>>>>)
CompositeOnly(sh) ==
    DictOf(<<<<"id", Str(<<sh, "#", "D4">>)>>,
             <<"nom_appareil", Str(<<"c">>)>>>>)

ZoneMeta(label, num) ==
    DictOf(<<<<"zone_label", Str(<<label>>)>>, <<"num_zone", Str(<<num>>)>>>>)

\* The `data` of smarthome/read responses.
ParserDetails(sh) ==
    {NoDetails,
     [devices |-> <<FlatD1(sh)>>, zones |-> <<>>],
     [devices |-> <<FlatD1(sh), CompositeOnly(sh)>>,
      zones |-> <<[meta |-> ZoneMeta("Z", "1"),
                   devices |-> <<ZoneD1, ZoneD2>>]>>],
     [devices |-> <<>>,
      zones |-> <<[meta |-> ZoneMeta("Z", "1"),
                   devices |-> <<ZoneD1, ZoneD2>>],
                  [meta |-> ZoneMeta("Y", "2"),
                   devices |-> <<FlatD1(sh)>>]>>]}

\* The `data.results` of get_errors responses: none, errors of D1, errors
\* of a device D3 that the detail payload does not have.
RawError(code) ==
    DictOf(<<<<"code", Str(<<code>>)>>, <<"title", Str(<<"t">>)>>,
             <<"error", Str(<<"m">>)>>>>)
ErrorsFor(sh, device, codes) ==
    [by_device |->
        [h \in {sh} |->
            <<[id |-> <<device>>,
               payload |->
                   DictOf(<<<<"id_device", Str(<<device>>)>>,
                            <<"errors",
                              List([i \in 1..Len(codes) |->
                                        RawError(codes[i])])>>>>)]>>]]
ParserErrors(sh) ==
    {NoErrors, ErrorsFor(sh, "D1", <<"P_RF", "E2">>),
     ErrorsFor(sh, "D3", <<"P_RF">>)}

\* Dicts with keys among ids and values from the menu of each key.
PartialMaps(ids, Menu(_)) ==
    UNION {[present -> UNION {Menu(h) : h \in present}] : present \in SUBSET ids}

PayloadMaps(Menu(_)) ==
    {m \in PartialMaps(HomeIds, Menu) : \A h \in DOMAIN m : m[h] \in Menu(h)}

\* The smarthome with the smaller payload menu.
DetailsMenu(h) ==
    IF h = "SH1" THEN ParserDetails(h)
    ELSE {NoDetails, [devices |-> <<FlatD1(h)>>, zones |-> <<>>]}
ErrorsMenu(h) ==
    IF h = "SH1" THEN ParserErrors(h) ELSE {ErrorsFor(h, "D1", <<"E2">>)}

ParseStateArgs ==
    {[op |-> "parse_state", user_payload |-> UserData(ids),
      smarthome_payloads |-> sp, smarthome_error_payloads |-> ep] :
        ids \in {<<>>, <<"SH1">>, <<"", "SH2">>, <<"SH1", "SH2">>,
                 <<"SH2", "SH1">>},
        sp \in PayloadMaps(DetailsMenu), ep \in PayloadMaps(ErrorsMenu)}

NormalizeArgs ==
    {[op |-> "_normalize_devices", smarthome_id |-> "SH1", details |-> d,
      errors |-> e, stats |-> st] :
        d \in ParserDetails("SH1"), e \in ParserErrors("SH1"),
        st \in {NoStats, D3Stats("SH1")}}

\* -------------------------------------------------------- parser calls
\* parse_state is called with args.
CallParseState ==
    /\ args.op = "parse_state"
    /\ returned = NoCall
    /\ returned' = [op |-> "parse_state",
                    value |-> parse_state(args.user_payload,
                                          args.smarthome_payloads,
                                          args.smarthome_error_payloads)]
    /\ UNCHANGED <<args, apiVars, coordVars, hassVars>>

\* _normalize_devices is called with args (lines 174-257).
CallNormalizeDevices ==
    /\ args.op = "_normalize_devices"
    /\ returned = NoCall
    /\ LET devices_by_id == NormalizeById(args.smarthome_id, args.details,
                                          args.errors, args.stats)
       IN returned' = [op |-> "_normalize_devices",
                       value |-> [devices |-> DevicesOf(devices_by_id),
                                  devices_by_id |-> devices_by_id]]
    /\ UNCHANGED <<args, apiVars, coordVars, hassVars>>

InitParse ==
    /\ InitApi
    /\ InitCoordinator
    /\ InitHass
    /\ args \in ParseStateArgs \cup NormalizeArgs
    /\ returned = NoCall

NextParse == CallParseState \/ CallNormalizeDevices

\* ------------------------------------------------------- builder inputs
\* Raw devices for the builders: a mode code (4 is boost, 99 is unknown),
\* a boost timer or none, and some of the setpoints.
BuilderModes == {<<"0">>, <<"1">>, <<"3">>, <<"4">>, <<"9", "9">>}
BuilderTimers ==
    {<<>>,
     <<<<BOOST_TIMER, Chars(<<"0">>)>>>>,
     <<<<BOOST_TIMER, Chars(<<"1", "8", "0", "0">>)>>>>}
BuilderSetpoints ==
    {<<>>,
     <<<<SETPOINT_COMFORT, Chars(<<"6", "2", "4">>)>>>>,
     <<<<SETPOINT_COMFORT, Chars(<<"6", "2", "4">>)>>,
       <<SETPOINT_BOOST, Chars(<<"7", "5", "2">>)>>>>,
     <<<<SETPOINT_COMFORT, Chars(<<"6", "2", "4">>)>>,
       <<SETPOINT_ECO, Chars(<<"5", "9", "0">>)>>,
       <<SETPOINT_BOOST, Chars(<<"7", "5", "2">>)>>,
       <<SETPOINT_MANUAL, Chars(<<"6", "0", "0">>)>>>>}
BuilderDevices ==
    {WattsDevice("SH1",
                 DictOf(<<<<"id_device", Str(<<"D1">>)>>,
                          <<"gv_mode", Chars(m)>>,
                          <<"nv_mode", Chars(m)>>>> \o t \o s),
                 <<>>) :
        m \in BuilderModes, t \in BuilderTimers, s \in BuilderSetpoints}

\* The options, keys, temperatures (in tenths of a degree) and seconds the
\* builders are called with.
BuilderOptions ==
    {MODE_COMFORT, MODE_OFF, MODE_BOOST, MODE_MANUAL,
     <<"auto">>, MODE_UNKNOWN \o <<"_", "9", "9">>}
BuilderKeys ==
    {SETPOINT_COMFORT, SETPOINT_ECO, SETPOINT_BOOST, SETPOINT_MANUAL,
     BOOST_TIMER}
BuilderCelsius == {195, 215}
BuilderSeconds == {0 - 60, 0, 1800}
BuilderArgs ==
    {[op |-> "build_mode_write_request", device |-> d, selected_mode |-> o] :
        d \in BuilderDevices, o \in BuilderOptions}
    \cup
    {[op |-> "build_setpoint_write_request", device |-> d,
      setpoint_key |-> k, value_celsius |-> c] :
        d \in BuilderDevices, k \in BuilderKeys, c \in BuilderCelsius}
    \cup
    {[op |-> "build_boost_timer_write_request", device |-> d,
      value_seconds |-> s] :
        d \in BuilderDevices, s \in BuilderSeconds}

\* -------------------------------------------------------- builder calls
\* A builder assigns to its local query only, a dict that base_query has
\* just made: the device of the call is left as it is.
CallBuildModeWriteRequest ==
    /\ args.op = "build_mode_write_request"
    /\ returned = NoCall
    /\ returned' = [op |-> "build_mode_write_request",
                    value |-> build_mode_write_request(args.device,
                                                       args.selected_mode)]
    /\ UNCHANGED <<args, apiVars, coordVars, hassVars>>

CallBuildSetpointWriteRequest ==
    /\ args.op = "build_setpoint_write_request"
    /\ returned = NoCall
    /\ returned' = [op |-> "build_setpoint_write_request",
                    value |-> build_setpoint_write_request(
                                  args.device, args.setpoint_key,
                                  args.value_celsius)]
    /\ UNCHANGED <<args, apiVars, coordVars, hassVars>>

CallBuildBoostTimerWriteRequest ==
    /\ args.op = "build_boost_timer_write_request"
    /\ returned = NoCall
    /\ returned' = [op |-> "build_boost_timer_write_request",
                    value |-> build_boost_timer_write_request(
                                  args.device, args.value_seconds)]
    /\ UNCHANGED <<args, apiVars, coordVars, hassVars>>

InitBuild ==
    /\ InitApi
    /\ InitCoordinator
    /\ InitHass
    /\ args \in BuilderArgs
    /\ returned = NoCall

NextBuild ==
    \/ CallBuildModeWriteRequest
    \/ CallBuildSetpointWriteRequest
    \/ CallBuildBoostTimerWriteRequest

\* --------------------------------------------------------- codec inputs
\* The mode codes of both tables, codes of neither, "" and None.
CodecModes ==
    {NoneV, Str(<<>>)}
    \cup {Str(MODE_LABELS[i][1]) : i \in 1..Len(MODE_LABELS)}
    \cup {Str(c) : c \in DOMAIN MODE_CODE_TO_OPTION}
    \cup {Str(<<"5">>), Str(<<"9", "9">>)}

\* What a payload can hold as a temperature: nothing, strings (numbers, the
\* sentinel 2124, blanks, text, the names float() knows), ints (one of
\* them longer than any float, as json.loads makes of a long literal), a
\* list.
HugeInt == IntV(<<"1">> \o [i \in 1..FLOAT_MAX_DIGITS |-> "0"])
RawTemperatures ==
    {NoneV, Str(<<>>), List(<<>>), HugeInt,
     IntV(<<"6", "2", "4">>), IntV(<<"2", "1", "2", "4">>), IntV(<<"-", "1">>),
     Str(<<"6", "2", "4">>), Str(<<" ", "6", "9", "2", " ">>),
     Str(<<"2", "1", "2", "4">>), Str(<<"a", "b", "c">>), Str(<<" ">>),
     Str(<<"n", "a", "n">>), Str(<<"i", "n", "f">>),
     Str(<<"-", "i", "n", "f">>)}

\* The setpoints of the supported range, number.py lines 33-34, in tenths
\* of a degree.
DEFAULT_MIN_TEMP == 50
DEFAULT_MAX_TEMP == 370
CodecArgs ==
    {[op |-> "format_mode", value |-> v] : v \in CodecModes}
    \cup {[op |-> "mode_from_code", mode_code |-> v.s] :
             v \in CodecModes \ {NoneV}}
    \cup {[op |-> "encode_setpoint", value |-> x] :
             x \in DEFAULT_MIN_TEMP..DEFAULT_MAX_TEMP}
    \cup {[op |-> "decode_temperature", value |-> v] : v \in RawTemperatures}

\* ---------------------------------------------------------- codec calls
\* A code is formatted, and the label is mapped back.
CallFormatMode ==
    /\ args.op = "format_mode"
    /\ returned = NoCall
    /\ returned' = [op |-> "format_mode", value |-> format_mode(args.value)]
    /\ UNCHANGED <<args, apiVars, coordVars, hassVars>>

CallModeCodeFromLabel ==
    /\ returned.op = "format_mode"
    /\ returned.value # <<>>
    /\ returned' = [op |-> "mode_code_from_label",
                    value |-> mode_code_from_label(returned.value[1])]
    /\ UNCHANGED <<args, apiVars, coordVars, hassVars>>

\* A code is mapped to its option, and the option back.
CallModeFromCode ==
    /\ args.op = "mode_from_code"
    /\ returned = NoCall
    /\ returned' = [op |-> "mode_from_code",
                    value |-> mode_from_code(args.mode_code)]
    /\ UNCHANGED <<args, apiVars, coordVars, hassVars>>

CallGetCurrentModeCode ==
    /\ returned.op = "mode_from_code"
    /\ returned' = [op |-> "get_current_mode_code",
                    value |-> get_current_mode_code(returned.value)]
    /\ UNCHANGED <<args, apiVars, coordVars, hassVars>>

\* A setpoint is encoded, and the raw string decoded.
CallEncodeSetpoint ==
    /\ args.op = "encode_setpoint"
    /\ returned = NoCall
    /\ returned' = [op |-> "encode_setpoint",
                    value |-> encode_setpoint(args.value)]
    /\ UNCHANGED <<args, apiVars, coordVars, hassVars>>

CallDecodeSetpoint ==
    /\ returned.op = "encode_setpoint"
    /\ returned' = [op |-> "decode_setpoint",
                    raw |-> returned.value,
                    value |-> decode_setpoint(Str(returned.value))]
    /\ UNCHANGED <<args, apiVars, coordVars, hassVars>>

\* A raw temperature is decoded.
CallDecodeTemperature ==
    /\ args.op = "decode_temperature"
    /\ returned = NoCall
    /\ returned' = [op |-> "decode_temperature",
                    value |-> decode_temperature(args.value)]
    /\ UNCHANGED <<args, apiVars, coordVars, hassVars>>

InitCodec ==
    /\ InitApi
    /\ InitCoordinator
    /\ InitHass
    /\ args \in CodecArgs
    /\ returned = NoCall

NextCodec ==
    \/ CallFormatMode
    \/ CallModeCodeFromLabel
    \/ CallModeFromCode
    \/ CallGetCurrentModeCode
    \/ CallEncodeSetpoint
    \/ CallDecodeSetpoint
    \/ CallDecodeTemperature

\* ------------------------------------------------------- program inputs
\* Blocks: with a value, with a mode, without a start, with an empty value
\* beside a mode, and one that is no dict.
BlockMorning ==
    PDict(<<<<"start", PStr(<<"06:00">>)>>, <<"end", PStr(<<"08:00">>)>>,
            <<"value", PStr(<<"comfort">>)>>>>)
BlockDay ==
    PDict(<<<<"start", PStr(<<"08:00">>)>>, <<"end", PStr(<<"23:00">>)>>,
            <<"mode", PStr(<<"eco">>)>>>>)
BlockNoStart ==
    PDict(<<<<"start", PStr(<<>>)>>, <<"end", PStr(<<"08:00">>)>>,
            <<"value", PStr(<<"comfort">>)>>>>)
BlockEmptyValue ==
    PDict(<<<<"start", PStr(<<"00:00">>)>>, <<"end", PStr(<<"24:00">>)>>,
            <<"value", PStr(<<>>)>>, <<"mode", PStr(<<"eco">>)>>>>)
BlockLists ==
    {PList(<<BlockMorning>>), PList(<<BlockDay>>),
     PList(<<BlockMorning, BlockDay>>),
     PList(<<BlockNoStart, BlockDay>>), PList(<<BlockEmptyValue>>),
     PList(<<PStr(<<"eco">>), BlockDay>>), PStr(<<"eco">>)}

\* Day keys: names, aliases, capitals and blanks, and a key that is no day.
DayKeys ==
    {<<"monday">>, <<"Mon">>, <<" ", "TUESDAY", " ">>, <<"sun">>,
     <<"holiday">>}

\* The items of a weekly program: one day, or two days under different keys.
WeeklyPrograms ==
    {<<<<k, b>>>> : k \in DayKeys, b \in BlockLists}
    \cup {w \in {<<<<k1, b1>>, <<k2, b2>>>> :
                     k1 \in DayKeys, k2 \in DayKeys,
                     b1 \in BlockLists, b2 \in BlockLists} :
             w[1][1] # w[2][1]}

\* program_data: a program under "program" (alone or beside another key),
\* a program without the wrapper, a "program" that is no dict, and
\* payloads that are flattened already.
Timezone == <<<<"timezone">>, PStr(<<"Europe/Amsterdam">>)>>
ProgramPayloads ==
    {<<<<<<"program">>, PDict(w)>>>> : w \in WeeklyPrograms}
    \cup {<<Timezone, <<<<"program">>, PDict(w)>>>> : w \in WeeklyPrograms}
    \cup WeeklyPrograms
    \cup {<<Timezone, <<<<"program">>, PStr(<<"eco">>)>>>>,
          <<<<FlatKey(<<"monday">>, 0, "start"), PStr(<<"06:00">>)>>,
            <<<<"Mon">>, PList(<<BlockMorning>>)>>>>,
          <<<<FlatKey(<<"monday">>, 0, "start"), PStr(<<"06:00">>)>>,
            <<<<"program">>, PDict(<<<<<<"sun">>, PList(<<BlockDay>>)>>>>)>>>>}
ProgramArgs ==
    {[op |-> "normalize_program_data", program_data |-> p] :
        p \in ProgramPayloads}

\* normalize_program_data is called with args.
CallNormalizeProgramData ==
    /\ args.op = "normalize_program_data"
    /\ returned = NoCall
    /\ returned' = [op |-> "normalize_program_data",
                    value |-> normalize_program_data(args.program_data)]
    /\ UNCHANGED <<args, apiVars, coordVars, hassVars>>

InitProgram ==
    /\ InitApi
    /\ InitCoordinator
    /\ InitHass
    /\ args \in ProgramArgs
    /\ returned = NoCall

NextProgram == CallNormalizeProgramData

\* One step of the client on behalf of the tasks T, the inputs drawn from
\* the given sets.
NextApi(T, auths, allows, logins, apis) ==
    \/ \E t \in T, a \in auths, al \in allows : StartRequest(t, a, al)
    \/ \E t \in T, r \in logins : EnsureLoginDone(t, r)
    \/ \E t \in T, r \in apis : FirstAttemptDone(t, r)
    \/ \E t \in T, r \in logins : ReauthLoginDone(t, r)
    \/ \E t \in T, r \in apis : RetryDone(t, r)
    \/ \E t \in T : StartLogin(t)
    \/ \E t \in T, r \in logins : LoginDone(t, r)
    \/ Tick

\* One task at a time, every input.
Init == InitApi /\ InitCoordinator /\ InitFn /\ InitHass
Next == NextApi({"refresh"}, BOOLEAN, AllowSets, LoginResponses, ApiResponses)
Spec == Init /\ [][Next]_vars

\* Two tasks interleaved at their suspension points, on the inputs that
\* decide the control flow: a rejected, failed or accepted exchange and a
\* token that is stale at once or after one second.
ConcurrentLoginResponses ==
    {r \in LoginResponses :
        \/ r.net_failed
        \/ r.status = 401 /\ r.access_token = "" /\ r.refresh_token = ""
                          /\ r.expires_in = 0
        \/ /\ r.status = 200
           /\ <<r.access_token, r.refresh_token>>
                  \in {<<"tokA", "refA">>, <<"tokB", "">>}
           /\ r.expires_in \in {30, 31}}
ConcurrentApiResponses ==
    {r \in ApiResponses :
        \/ r.net_failed
        \/ r.status = 401
        \/ r.status = 200 /\ r.code_entry = NoCodeEntry}

NextConcurrent ==
    NextApi(Tasks, {TRUE}, {{}}, ConcurrentLoginResponses,
            ConcurrentApiResponses)
SpecConcurrent == Init /\ [][NextConcurrent]_vars

\* The refresh cycles of the coordinator, the calls of the API client seen
\* by how they end.
SpecRefresh == Init /\ [][NextRefresh]_vars

\* The parsers of models.py and the normalization of the coordinator, each
\* called once on payloads of the vendor API.
SpecParse == InitParse /\ [][NextParse]_vars

\* The three write-request builders of models.py, each called once on a
\* parsed device.
SpecBuild == InitBuild /\ [][NextBuild]_vars

\* The mode tables and the setpoint codec: a value is converted, and the
\* result converted back.
SpecCodec == InitCodec /\ [][NextCodec]_vars

\* normalize_program_data of program.py, called once on a service payload.
SpecProgram == InitProgram /\ [][NextProgram]_vars

\* Setups and unloads of two config entries, interleaved at their awaits.
SpecHass == Init /\ [][NextHass]_vars

\* The write methods of the entities, called one after another on a
\* snapshot of the coordinator.
SpecWrite == InitWrite /\ [][NextWrite]_vars

\* The write methods of the coordinator and its clock.
SpecFastPoll == InitFastPoll /\ [][NextFastPoll]_vars

\* ================================================================ claims
\* A login exchange of task t is in flight.
LoginInFlight(t) == call[t].pc \in {"ensure_login", "reauth_login", "login"}

\* The request of task t took the retry path of _request.
Rejected(t) ==
    /\ call[t].op = "request"
    /\ call[t].auth_required
    /\ call[t].first_status \in AUTH_REJECTED

\* The request of task t ended on the response to its retry.
RetryAnswered(t) ==
    Rejected(t) /\ call[t].pc = "done" /\ call[t].attempts = 2
                /\ ~call[t].net_failed

\* C1: after a 401/403 on the first attempt of an authenticated request the
\* client makes exactly one login call and exactly one retry, whatever the
\* login response (also with expires_in <= 30), and a 401/403 on the retry
\* ends the request with AuthError without a third attempt.
C1_OneReauthOneRetry ==
    \A t \in Tasks :
        Rejected(t) =>
            /\ call[t].relogins <= 1
            /\ call[t].attempts <= 2
            /\ call[t].attempts = 2 => call[t].relogins = 1
            /\ RetryAnswered(t) /\ call[t].status \in AUTH_REJECTED
                   => call[t].result = "AuthError"

\* _ensure_access_token has run for the request of task t.
Ensured(t) ==
    /\ call[t].op = "request"
    /\ call[t].auth_required
    /\ call[t].pc # "idle"

\* C2 as stated: a token is attached only if it was non-null and before the
\* 30 s margin when _ensure_access_token ran, and a login is made exactly
\* when the cached token is null or inside the margin.
C2_AttachedOnlyWithinMargin ==
    \A t \in Tasks :
        /\ call[t].bearer # None => call[t].margin_ok
        /\ Ensured(t) => (call[t].ensure_login <=> ~call[t].ensure_fresh)

\* C2 amended: a token is attached only if it was non-null and before the
\* 30 s margin when _ensure_access_token ran, or was issued by the login
\* that this _ensure_access_token had just made (such a token is attached
\* unchecked, also when it lives 30 s or less); a login is made exactly when
\* the cached token is null or inside the margin.
C2_AttachedWithinMarginOrJustIssued ==
    \A t \in Tasks :
        /\ call[t].bearer # None =>
               call[t].margin_ok \/ call[t].ensure_login
        /\ Ensured(t) => (call[t].ensure_login <=> ~call[t].ensure_fresh)

\* A token inside the margin is attached, fresh from the login of
\* _ensure_access_token.
C2_Witness ==
    \E t \in Tasks :
        /\ call[t].pc = "http1"
        /\ call[t].bearer # None
        /\ ~call[t].margin_ok
        /\ call[t].ensure_login

\* The request of task t ended with the terminal AuthError: 401/403 on the
\* first attempt and on the retry.
TerminalAuthError(t) ==
    /\ RetryAnswered(t)
    /\ call[t].status \in AUTH_REJECTED
    /\ call[t].result = "AuthError"

\* C3 as stated: after the terminal AuthError the client holds no token.
C3_UnauthenticatedAfterTerminalAuthError ==
    \A t \in Tasks : TerminalAuthError(t) => ~_token.present

\* Task u has no login in flight and its last call did not end in a failed
\* login or exchange.
NoPendingReauth(u) ==
    \/ call[u].pc \in {"idle", "http1", "http2"}
    \/ call[u].pc = "done" /\ call[u].result \notin {"AuthError", "ConnectionError"}

\* C3 amended: the step that ends a request with the terminal AuthError
\* leaves the token cache as it is, so the client is not Unauthenticated: it
\* still holds the token of the last login, unless a concurrent call has a
\* login in flight or has failed.
C3_TerminalAuthErrorKeepsToken ==
    [][\A t \in Tasks :
          (call[t].pc = "http2" /\ TerminalAuthError(t)')
              => /\ _token' = _token
                 /\ _access_token' = _access_token
                 /\ _refresh_token' = _refresh_token
                 /\ ((\A u \in Tasks \ {t} : NoPendingReauth(u))
                        => _token'.present)]_vars

\* A request has ended with the terminal AuthError and the token of its
\* re-authentication is still cached.
C3_Witness ==
    \E t \in Tasks :
        /\ TerminalAuthError(t)
        /\ _token.present
        /\ _access_token = call[t].bearer

\* C4: at most one login call is in flight at any time.
C4_OneLoginInFlight ==
    Cardinality({t \in Tasks : LoginInFlight(t)}) <= 1

\* The last response of the request of task t was an HTTP success whose
\* body has a `code` entry.
EnvelopeChecked(t) ==
    /\ call[t].op = "request"
    /\ call[t].pc = "done"
    /\ ~call[t].net_failed
    /\ call[t].status = 200
    /\ call[t].code_entry.kind # "absent"

\* The envelope's code field as the claim reads it, and the allowed set.
ClaimCode(t) ==
    IF call[t].code_entry.kind = "mapping" /\ call[t].code_entry.has_code
    THEN Strip(call[t].code_entry.code) ELSE <<>>
ClaimAllowed(t) == {<<"1">>, <<"8">>} \cup call[t].allow

C6_NetworkFailureNotRetried ==
    \A t \in Tasks :
        call[t].net_failed =>
            /\ call[t].pc = "done"
            /\ call[t].result = "ConnectionError"

\* The retry of a request failed at the network layer.
C6_Witness ==
    \E t \in Tasks :
        /\ call[t].net_failed
        /\ call[t].attempts = 2
        /\ call[t].result = "ConnectionError"

\* The access/refresh pairs the token endpoint issues in SpecConcurrent.
IssuedPairs == {<<"tokA", "refA">>, <<"tokB", "">>}

\* C7: at every suspension point the cached _access_token/_refresh_token are
\* both null with a null token, or are the fields of the current token,
\* which come from one single login response.
C7_TokenReplacedWholesale ==
    IF ~_token.present
    THEN _access_token = None /\ _refresh_token = None
    ELSE /\ _access_token = _token.access_token
         /\ _refresh_token = _token.refresh_token
         /\ <<_access_token, _refresh_token>> \in IssuedPairs

\* A token without refresh token replaced one with, while another task is
\* suspended in a login.
C7_Witness ==
    /\ _token.present
    /\ _token.access_token = "tokB"
    /\ \E t \in Tasks : call[t].pc = "http2"
    /\ \E t \in Tasks : call[t].pc = "reauth_login"

\* ---------------------------------------------------------- refresh cycle
\* What the read accessors return for data d and smarthome list s.
Observed(d, s) ==
    [data |-> d, smarthomes |-> smarthomes(s),
     devices |-> [h \in HomeIds |-> get_smarthome_devices(d, h)]]

RefreshFailed == last.exception \notin {"", "None"}

\* C8: while a refresh cycle is running, and after one that failed, the
\* data, the smarthomes list and the device lookups of the coordinator
\* return what they returned when the cycle started.
C8_NoPartialResultObservable ==
    (refresh.pc # "idle" \/ RefreshFailed)
        => Observed(data, _smarthomes) = Observed(pre.data, pre.smarthomes)

\* C9: a refresh that a WattsAuthError ended has a fatal outcome: polling
\* stops, and the exception is not the one a WattsApiError of a single
\* endpoint ends a refresh with.
C9_AuthErrorFatalAndDistinct ==
    last.cause = "AuthError"
        => /\ ~last.polling
           /\ last.exception # Raised("ApiError").exception

\* C10: whatever error the get_errors call of a smarthome ends with, it
\* does not end the refresh.
C10_ErrorListFailureNonFatal ==
    ~(RefreshFailed /\ last.endpoint = "errors")

\* The smarthomes of the list s that the loop of a refresh fetches.
Listed(s) == {s[i].smarthome_id : i \in 1..Len(s)} \ {""}

\* Every listed smarthome of the published snapshot has an entry: one
\* without devices if its detail fetch failed, one with its normalized
\* devices otherwise.
PublishedPerSmarthome ==
    data.present =>
        \A h \in Listed(data.user.smarthomes) :
            /\ h \in DOMAIN data.smarthomes
            /\ LET e == data.smarthomes[h]
               IN IF e.keys = "error"
                  THEN get_smarthome_devices(data, h) = <<>>
                  ELSE get_smarthome_devices(data, h)
                         = DevicesOf(NormalizeById(h, e.details, e.errors,
                                                   e.stats))

RECURSIVE ZoneRawDevices(_)
ZoneRawDevices(zones_raw) ==
    IF zones_raw = <<>> THEN <<>>
    ELSE Head(zones_raw).devices \o ZoneRawDevices(Tail(zones_raw))
RawDevices(details) == details.devices \o ZoneRawDevices(details.zones)

\* The id_device values that occur in a detail payload and in an error
\* payload.
DetailIds(details) ==
    {Strip(Get(d, "id_device").s) : d \in Range(RawDevices(details))} \ {<<>>}
ErrorIds(errors) ==
    {Strip(Get(d, "id_device").s) : d \in RawErrorDevices(errors)} \ {<<>>}

\* The id by which _normalize_devices knows a raw device: its id_device,
\* or what follows "#" in its id.
ResolvedId(d) ==
    LET raw_id == IF Get(d, "id_device").s # <<>> THEN Get(d, "id_device").s
                  ELSE Get(d, "id").s
    IN IF HasHash(raw_id) THEN AfterHash(raw_id) ELSE raw_id
ResolvedIds(details) ==
    {ResolvedId(d) : d \in Range(RawDevices(details))} \ {<<>>}
ErrorKeys(errors, smarthome_id) ==
    IF smarthome_id \in DOMAIN errors.by_device
    THEN {e.id : e \in Range(errors.by_device[smarthome_id])} ELSE {}
StatsKeys(stats) == {AfterHash(e.id) : e \in Range(stats.devices)}

\* No two devices of the sequence have the same id_device.
UniqueIds(devices) ==
    \A i, j \in 1..Len(devices) :
        devices[i].id_device = devices[j].id_device => i = j
\* The same for the dicts of _normalize_devices.
UniqueRawIds(devices) ==
    \A i, j \in 1..Len(devices) :
        devices[i]["id_device"] = devices[j]["id_device"] => i = j

ParsedHomes == returned.value.smarthomes
NoErrorPayload == [by_device |-> EmptyDict]
ErrorPayloadOf(h) ==
    IF h \in DOMAIN args.smarthome_error_payloads
    THEN args.smarthome_error_payloads[h] ELSE NoErrorPayload

InFlatAndZone(details, id) ==
    /\ \E d \in Range(details.devices) : ResolvedId(d) = id
    /\ \E d \in Range(ZoneRawDevices(details.zones)) : ResolvedId(d) = id
FirstOccurrence(details, id) ==
    LET raw == RawDevices(details)
    IN raw[CHOOSE i \in 1..Len(raw) :
               /\ ResolvedId(raw[i]) = id
               /\ \A j \in 1..(i - 1) : ResolvedId(raw[j]) # id]
Occurs(details, id) == \E d \in Range(RawDevices(details)) : ResolvedId(d) = id

\* The base fields of a parsed device are those of the raw device.
SameBaseFields(device, raw_device) ==
    /\ device.id = _as_str(Get(raw_device, "id"))
    /\ device.name = _as_str(Get(raw_device, "nom_appareil"))
    /\ device.bundle_id = _as_str(Get(raw_device, "bundle_id"))
    /\ device.gv_mode = _as_str(Get(raw_device, "gv_mode"))
    /\ device.nv_mode = _as_str(Get(raw_device, "nv_mode"))
    /\ device.time_boost_seconds
         = OrZero(_as_int(Get(raw_device, BOOST_TIMER)))
    /\ \A k \in Range(SETPOINT_AND_MANUAL_KEYS) :
          IF k \in DOMAIN device.setpoints_raw
          THEN <<device.setpoints_raw[k]>> = _as_int(Get(raw_device, k))
          ELSE _as_int(Get(raw_device, k)) = <<>>

\* parse_smarthome keeps the base fields of the first occurrence.
ParsedFirstWins ==
    returned.op = "parse_state" =>
        \A i \in 1..Len(ParsedHomes) :
            \A d \in Range(ParsedHomes[i].devices) :
                SameBaseFields(
                    d,
                    FirstOccurrence(
                        args.smarthome_payloads[ParsedHomes[i].smarthome_id],
                        d.id_device))

\* _normalize_devices keeps the fields of the first occurrence, zone
\* metadata apart.
NormalizedFirstWins ==
    returned.op = "_normalize_devices" =>
        \A id \in DOMAIN returned.value.devices_by_id :
            Occurs(args.details, id) =>
                LET first == FirstOccurrence(args.details, id)
                IN \A k \in DOMAIN first \ Range(ZONE_KEYS) :
                      returned.value.devices_by_id[id][k] = first[k]

\* C13: a device that occurs more than once in the flat list and the zone
\* lists keeps the base field values of its first occurrence; no later
\* occurrence overwrites them.
C13_FirstOccurrenceWins == ParsedFirstWins /\ NormalizedFirstWins

\* The ids of the listed smarthomes that have a detail payload, in the
\* order of the profile.
RECURSIVE ListedWithPayload(_, _)
ListedWithPayload(raw_smarthomes, smarthome_payloads) ==
    IF raw_smarthomes = <<>> THEN <<>>
    ELSE (IF Head(raw_smarthomes).smarthome_id \in DOMAIN smarthome_payloads
          THEN <<Head(raw_smarthomes).smarthome_id>> ELSE <<>>)
         \o ListedWithPayload(Tail(raw_smarthomes), smarthome_payloads)

BuiltQuery == returned.value.request[1].query
BaseQuery == base_query(args.device)
Built(op) == returned.op = op /\ returned.value.raised = ""

\* Two queries have the same fields with the same values, the fields in
\* keys apart.
SameExcept(query, base, keys) ==
    /\ DOMAIN query \ keys = DOMAIN base \ keys
    /\ \A k \in DOMAIN query \ keys : query[k] = base[k]

\* The key is the setpoint of the current mode of the device.
ActiveSetpoint(device, key) ==
    /\ current_mode(device) \in DOMAIN SETPOINT_BY_MODE
    /\ SETPOINT_BY_MODE[current_mode(device)] = key

\* C15: build_setpoint_write_request for the setpoint of the device's
\* current mode sets that setpoint field and the manual field to the same
\* encoded value; for another setpoint the query differs from base_query
\* in that one field only, the manual field included.
C15_SetpointMirrorsManualWhenActive ==
    Built("build_setpoint_write_request") =>
        LET key == args.setpoint_key
            raw == StrOfInt(celsius_to_raw(args.value_celsius))
        IN /\ BuiltQuery[key] = raw
           /\ IF ActiveSetpoint(args.device, key)
              THEN /\ BuiltQuery[SETPOINT_MANUAL] = raw
                   /\ SameExcept(BuiltQuery, BaseQuery, {key, SETPOINT_MANUAL})
              ELSE SameExcept(BuiltQuery, BaseQuery, {key})

\* A setpoint that is not the active one has been written for a device
\* whose base query has a manual field of another value.
C15_Witness ==
    /\ Built("build_setpoint_write_request")
    /\ ~ActiveSetpoint(args.device, args.setpoint_key)
    /\ current_mode(args.device) \in DOMAIN SETPOINT_BY_MODE
    /\ SETPOINT_MANUAL \in DOMAIN BaseQuery
    /\ BuiltQuery[SETPOINT_MANUAL] # BuiltQuery[args.setpoint_key]

\* C16: build_mode_write_request(device, "boost") for a device without a
\* boost timer (absent or zero) yields time_boost "3600"; a positive timer
\* of the device is kept.
C16_BoostDefaultTimer ==
    Built("build_mode_write_request") /\ args.selected_mode = MODE_BOOST =>
        BuiltQuery[BOOST_TIMER] =
            IF args.device.time_boost_seconds > 0
            THEN StrOfInt(args.device.time_boost_seconds)
            ELSE DEFAULT_BOOST_TIMER

\* C17: build_mode_write_request raises ValueError and builds nothing for
\* a mode without a code; otherwise gv_mode and nv_mode are the code of the
\* selected mode, and the manual field is the raw value of the setpoint of
\* the mode when the device knows it.
C17_ModeRequest ==
    returned.op = "build_mode_write_request" =>
        IF args.selected_mode \notin DOMAIN MODE_OPTION_TO_CODE
        THEN returned.value = RaisesValueError
        ELSE /\ returned.value.raised = ""
             /\ BuiltQuery["gv_mode"] = MODE_OPTION_TO_CODE[args.selected_mode]
             /\ BuiltQuery["nv_mode"] = MODE_OPTION_TO_CODE[args.selected_mode]
             /\ \A mode \in DOMAIN SETPOINT_BY_MODE :
                   /\ mode = args.selected_mode
                   /\ SETPOINT_BY_MODE[mode] \in DOMAIN args.device.setpoints_raw
                   => /\ SETPOINT_MANUAL \in DOMAIN BuiltQuery
                      /\ BuiltQuery[SETPOINT_MANUAL] =
                           StrOfInt(args.device.setpoints_raw[
                                        SETPOINT_BY_MODE[mode]])

\* A mode with a setpoint has been selected for a device that knows the
\* setpoint and has another manual setpoint.
C17_Witness ==
    /\ Built("build_mode_write_request")
    /\ args.selected_mode \in DOMAIN SETPOINT_BY_MODE
    /\ SETPOINT_BY_MODE[args.selected_mode] \in DOMAIN args.device.setpoints_raw
    /\ SETPOINT_MANUAL \in DOMAIN args.device.setpoints_raw
    /\ BaseQuery[SETPOINT_MANUAL] # BuiltQuery[SETPOINT_MANUAL]

\* The query of build_boost_timer_write_request has the timer max(0,
\* seconds) and the other fields of base_query.
TimerClamped ==
    Built("build_boost_timer_write_request") =>
        /\ BuiltQuery[BOOST_TIMER]
             = StrOfInt(IF args.value_seconds > 0 THEN args.value_seconds ELSE 0)
        /\ SameExcept(BuiltQuery, BaseQuery, {BOOST_TIMER})

C19_ModeCodeRoundTrip ==
    /\ returned.op = "mode_code_from_label" => returned.value = <<args.value.s>>
    /\ returned.op = "get_current_mode_code"
          => returned.value = <<args.mode_code>>

\* C20: decode_setpoint(encode_setpoint(x)) is x for every x from 5.0 to
\* 37.0 with one decimal place: never None and never another value.
C20_SetpointRoundTrip ==
    returned.op = "decode_setpoint" => returned.value = Finite(args.value)

\* The upper end of the range has been encoded and decoded; its raw value
\* is below the threshold above which decode_setpoint returns None.
C20_Witness ==
    /\ returned.op = "decode_setpoint"
    /\ args.value = DEFAULT_MAX_TEMP
    /\ returned.raw # StrOfInt(args.value)
    /\ returned.value.kind = "finite"

\* The raw temperature is missing, an empty (or blank) string or a string
\* that is no decimal number.
NoReading(value) ==
    \/ value = NoneV
    \/ value.t = "str" /\ ~IsFloatText(Strip(value.s))

\* The raw temperature is the number 2124, the sentinel of the vendor.
Sentinel(value) ==
    /\ value.t \in {"str", "int"}
    /\ Strip(value.s) = <<"2", "1", "2", "4">>

\* C21: decode_temperature never raises: it returns a Celsius value or
\* None for every input, and None for a missing value, an empty or
\* non-numeric string and a sentinel-invalid raw value.
C21_DecodeTemperatureTotal ==
    returned.op = "decode_temperature" =>
        /\ returned.value.raised = ""
        /\ returned.value.kind \in {"none", "finite"}
        /\ NoReading(args.value) \/ Sentinel(args.value)
              => returned.value.kind = "none"

\* The login exchange of task t comes back with the response resp, in
\* async_login called on its own, by _ensure_access_token or by
\* _force_reauthenticate.
LoginExchangeDone(t, resp) ==
    \/ LoginDone(t, resp)
    \/ EnsureLoginDone(t, resp)
    \/ ReauthLoginDone(t, resp)

\* C27: after every successful login the stored expiry is the login time
\* plus max(1, expires_in), strictly later than the login time, whatever
\* expires_in is (0, negative, missing); a login that fails with HTTP >=
\* 400 or without access_token raises AuthError and stores no new token.
C27_ExpiryFloor ==
    [][\A t \in Tasks, resp \in LoginResponses :
          LoginExchangeDone(t, resp) /\ ~resp.net_failed =>
             IF resp.status < 400 /\ resp.access_token # ""
             THEN /\ _token'.present
                  /\ _token'.expires_at
                       = now + (IF resp.expires_in > 1 THEN resp.expires_in
                                ELSE 1)
                  /\ _token'.expires_at > now
             ELSE /\ _token' = _token
                  /\ call'[t].pc = "done"
                  /\ call'[t].result = "AuthError"]_vars

\* A login has just succeeded on a response whose expires_in is 0 or less:
\* the token expires one second after the login.
C27_Witness ==
    /\ call["refresh"].op = "login"
    /\ call["refresh"].pc = "done"
    /\ call["refresh"].result = "ok"
    /\ _token.present
    /\ _token.expires_at = now + 1

\* ------------------------------------------------------------------ C26
\* The source of the days of a payload: the dict under "program", or the
\* payload itself when it has no "program" key.
ProgramSource(program_data) ==
    ItemOf(program_data, <<"program">>, PDict(program_data))

\* The key names a day: a full name or a three-letter alias, whatever its
\* capitals and the blanks around it.
IsDayKey(key) ==
    /\ Len(Lower(Strip(key))) = 1
    /\ Lower(Strip(key))[1] \in DOMAIN DAY_ALIASES

\* The value of a block as C26 words it: its value, or its mode when its
\* value is missing or empty.
ValueOrMode(block) ==
    IF NoneOrEmpty(ItemOf(block.items, "value", PNone))
    THEN ItemOf(block.items, "mode", PNone)
    ELSE ItemOf(block.items, "value", PNone)

\* The value of a block as the amended claim words it: its value when the
\* block has a value key, its mode otherwise.
ValueElseMode(block) ==
    IF HasKey(block.items, "value") THEN ItemOf(block.items, "value", PNone)
    ELSE ItemOf(block.items, "mode", PNone)

\* The block has non-empty start, end and the given value.
Complete(block, value) ==
    /\ block.t = "dict"
    /\ ~NoneOrEmpty(ItemOf(block.items, "start", PNone))
    /\ ~NoneOrEmpty(ItemOf(block.items, "end", PNone))
    /\ ~NoneOrEmpty(value)

\* The result holds the three flattened keys of the block at position i
\* (from 1 in the list, from 0 in the key) of the day.
HoldsBlock(result, day, i, block, value) ==
    /\ FlatKey(day, i - 1, "start") \in DOMAIN result
    /\ FlatKey(day, i - 1, "end") \in DOMAIN result
    /\ FlatKey(day, i - 1, "value") \in DOMAIN result
    /\ result[FlatKey(day, i - 1, "start")]
          = PStr(ItemOf(block.items, "start", PNone).s)
    /\ result[FlatKey(day, i - 1, "end")]
          = PStr(ItemOf(block.items, "end", PNone).s)
    /\ result[FlatKey(day, i - 1, "value")] = PStr(value.s)

\* The canonical day of a day key.
CanonicalDay(key) == <<DAY_ALIASES[Lower(Strip(key))[1]]>>

\* A later item of the source names the same day and has a complete block
\* at position i.
Overwritten(source, n, i) ==
    \E m \in (n + 1)..Len(source) :
        /\ IsDayKey(source[m][1])
        /\ CanonicalDay(source[m][1]) = CanonicalDay(source[n][1])
        /\ source[m][2].t = "list"
        /\ i \in 1..Len(source[m][2].items)
        /\ Complete(source[m][2].items[i], ValueElseMode(source[m][2].items[i]))

\* A payload with a flattened key comes back as it is; the other keys
\* beside "program" are kept.
KeptAsIs(program_data, result) ==
    /\ (\E n \in 1..Len(program_data) : IsFlatKey(program_data[n][1]))
          => result = AsDict(program_data)
    /\ \A n \in 1..Len(program_data) :
          program_data[n][1] # <<"program">>
             => /\ program_data[n][1] \in DOMAIN result
                /\ result[program_data[n][1]] = program_data[n][2]

\* The payload is a structured program: no flattened key, and days in a dict.
Structured(program_data) ==
    /\ ~\E n \in 1..Len(program_data) : IsFlatKey(program_data[n][1])
    /\ ProgramSource(program_data).t = "dict"

\* C26 as stated: normalize_program_data flattens every complete block of
\* every day key of a structured program into program[<day>][i][start],
\* [end] and [value], the value being the block's value or its mode; it
\* keeps the keys beside "program" and returns a flattened payload as it is.
C26_EveryBlockFlattened ==
    returned.op = "normalize_program_data" =>
        LET source == ProgramSource(args.program_data).items
        IN /\ KeptAsIs(args.program_data, returned.value)
           /\ Structured(args.program_data) =>
                 \A n \in 1..Len(source) :
                    IsDayKey(source[n][1]) /\ source[n][2].t = "list" =>
                       \A i \in 1..Len(source[n][2].items) :
                          LET block == source[n][2].items[i]
                          IN Complete(block, ValueOrMode(block)) =>
                                HoldsBlock(returned.value,
                                           CanonicalDay(source[n][1]), i,
                                           block, ValueOrMode(block))

\* C26, amended: normalize_program_data flattens every block of every day
\* key that has non-empty start, end and value (its mode when the block has
\* no value key), unless a later key of the same canonical day has such a
\* block at the same position; it keeps the keys beside "program" and
\* returns a flattened payload as it is.
C26_LastKeyOfDayFlattened ==
    returned.op = "normalize_program_data" =>
        LET source == ProgramSource(args.program_data).items
        IN /\ KeptAsIs(args.program_data, returned.value)
           /\ Structured(args.program_data) =>
                 \A n \in 1..Len(source) :
                    IsDayKey(source[n][1]) /\ source[n][2].t = "list" =>
                       \A i \in 1..Len(source[n][2].items) :
                          LET block == source[n][2].items[i]
                          IN Complete(block, ValueElseMode(block))
                             /\ ~Overwritten(source, n, i) =>
                                HoldsBlock(returned.value,
                                           CanonicalDay(source[n][1]), i,
                                           block, ValueElseMode(block))

\* Two keys of one day, each with a complete block at the first position,
\* have been flattened, beside a key that is kept.
C26_Witness ==
    /\ returned.op = "normalize_program_data"
    /\ Structured(args.program_data)
    /\ HasKey(args.program_data, <<"timezone">>)
    /\ LET source == ProgramSource(args.program_data).items
       IN /\ Len(source) = 2
          /\ IsDayKey(source[1][1])
          /\ source[1][2].t = "list"
          /\ Complete(source[1][2].items[1], ValueElseMode(source[1][2].items[1]))
          /\ Overwritten(source, 1, 1)
          /\ source[1][2].items[1] # source[2][2].items[1]
          /\ HoldsBlock(returned.value, CanonicalDay(source[2][1]), 1,
                        source[2][2].items[1],
                        ValueElseMode(source[2][2].items[1]))

\* ------------------------------------------------------------------ C28
\* The positions of the smarthomes the running cycle fetches (lines 50-53).
HomesToFetch ==
    {i \in 1..Len(_smarthomes) : _smarthomes[i].smarthome_id # ""}

\* A detail or error-list fetch (or another per-smarthome fetch) of the
\* smarthome at position i has been issued and has not come back.
FetchInFlight(i) ==
    /\ refresh.pc \in {"details"} \cup {SAFE_ENDPOINTS[k] : k \in 1..Len(SAFE_ENDPOINTS)}
    /\ refresh.idx = i

\* The fetches of the smarthome at position i have come back in this cycle.
FetchesCompleted(i) ==
    _smarthomes[i].smarthome_id \in DOMAIN refresh.smarthome_data

\* C28: within one refresh cycle the fetches of different smarthomes are
\* issued concurrently (fan-out): while the fetches of one smarthome are in
\* flight, those of every other smarthome of the cycle are in flight too or
\* have completed; and the snapshot is assembled only after all of them have
\* completed (fan-in).
C28_FanOutFanIn ==
    /\ \A i \in HomesToFetch, j \in HomesToFetch :
          i # j /\ FetchInFlight(i) => FetchInFlight(j) \/ FetchesCompleted(j)
    /\ refresh.pc = "idle" /\ last.exception = "None" =>
          \A i \in HomesToFetch :
             _smarthomes[i].smarthome_id \in DOMAIN data.smarthomes

\* ------------------------------------------------------------------ C30
\* C30: when the login of async_setup_entry fails, for rejected credentials
\* or an unreachable endpoint, the setup ends with ConfigEntryNotReady, no
\* coordinator is created and nothing is stored for the entry in hass.data.
C30_LoginFailureNotReady ==
    [][\A e \in Entries, resp \in LoginResponses :
          SetupLoginDone(e, resp) /\ LoginResult(resp) # "ok" =>
             /\ hass'.setup[e].result = "ConfigEntryNotReady"
             /\ hass'.setup[e].pc = "not_loaded"
             /\ e \notin DOMAIN hass'.data]_vars

\* ------------------------------------------------------------------ C29
\* No call of async_setup_entry is running.
NoSetupRunning ==
    \A e \in Entries : hass.setup[e].pc \in {"not_loaded", "loaded"}

\* The entries that are loaded.
Loaded == {e \in Entries : hass.setup[e].pc = "loaded"}

\* C29: after any sequence of setups and unloads, the five services are
\* registered if and only if an entry is loaded, and the handler of every
\* registered service works on the coordinator and the client of an entry
\* that is still loaded.
C29_ServicesFollowEntries ==
    NoSetupRunning =>
       /\ DOMAIN hass.services = (IF Loaded # {} THEN SERVICES ELSE {})
       /\ \A s \in DOMAIN hass.services :
             \E e \in Loaded : hass.services[s] = hass.data[e]

\* ------------------------------------------------------------------ C23
\* C23: a write addressed to a smarthome id or a device id that is not in
\* the cached snapshot fails with a lookup error, and no network call is
\* made for it.
C23_UnknownTargetFailsFast ==
    write.pc # "idle" /\ ~write.known =>
       /\ write.pushes = 0
       /\ write.pc = "done"
       /\ write.result = "LookupError"

\* ------------------------------------------------------------------ C24
\* C24: every error of the API client during a write (ApiError, AuthError
\* or ConnectionError of the push) reaches the caller of the write as an
\* error: no write returns normally when its push failed.
C24_PushErrorsReachCaller ==
    write.pc = "done" /\ write.pushed \in CallResults \ {"ok"} =>
       write.result = write.pushed

\* ------------------------------------------------------------------ C25
\* C25: a write whose push fails requests no refresh and leaves the cached
\* snapshot as it was: a refresh is requested only after the push returned
\* successfully, and the snapshot after a failed write is the one before it.
C25_FailedWriteNoRefresh ==
    /\ write.refresh_requests > 0 => write.pushed = "ok"
    /\ write.pushed \in CallResults \ {"ok"} =>
          /\ write.refresh_requests = 0
          /\ data = write.before
          /\ get_device_data(data, write.smarthome_id, write.device_id)
                = get_device_data(write.before, write.smarthome_id,
                                  write.device_id)

\* A write to a device of the snapshot has ended after its push failed.
C25_Witness ==
    /\ write.pc = "done"
    /\ write.known
    /\ write.pushed = "ApiError"
    /\ write.refresh_requests = 0

\* ------------------------------------------------------------------ C22
\* The window of the last successful write is open: fewer seconds than
\* its duration have passed since that write.
WindowOpen(p) ==
    /\ p.armed_at >= 0
    /\ p.clock - p.armed_at < POST_WRITE_FAST_POLL_DURATION_SECONDS

\* In every state the interval is the fast one inside the window of the
\* last successful write and the normal one outside it.
IntervalFollowsWindow ==
    update_interval(poll) =
       (IF WindowOpen(poll)
        THEN (IF poll.normal < 15 THEN poll.normal ELSE 15)
        ELSE poll.normal)

====
